---- MODULE Spec2Model ----
(***************************************************************************)
(* Change-detection-and-rollback engine of the configuration monitor:      *)
(* WindowsMonitoring / MacOSMonitoring (poll tick, allowChange, delayed    *)
(* alert timers), RegistryKey / PlistFile (monitored item),                *)
(* WindowsRollback / MacOSRollback, Alert (rate-limited dispatch) and the  *)
(* Database tables the tick writes.                                        *)
(*                                                                         *)
(* Every handler runs to completion on the single Qt event loop, so each   *)
(* handler is one action.  A handler is written as an operator from a      *)
(* record of the program state to the record after the handler; the        *)
(* action commits the record.  `trail` is the list of the effects of the   *)
(* handler that ran last, in the order the code performs them.             *)
(***************************************************************************)
EXTENDS Integers, Sequences, FiniteSets, TLC

VARIABLES
    platform,                    \* "win" | "mac": which monitoring class was built (main.cpp)
    m_monitoringActive,          \* WindowsMonitoring::m_monitoringActive
    timerActive,                 \* m_timer.isActive()
    m_registryKeys,              \* list of item objects (ids into heap)
    heap,                        \* item objects: RegistryKey / PlistFile fields
    registry,                    \* the external resource: value name -> value on disk
    m_lastAlertedValue,          \* QHash name -> last value recorded for debounce
    Changes,                     \* table Changes (append-only list of rows)
    ConfigurationSettings,       \* table ConfigurationSettings: name -> row
    UserSettings,                \* table UserSettings: list of contact rows
    awsClients,                  \* Alert: m_snsClient / m_sesv2Client were created
    m_alertTimestamps,           \* Alert::m_alertTimestamps
    m_notificationFrequency,     \* Settings::m_notificationFrequency
    m_nonCriticalAlertThreshold, \* Settings::m_nonCriticalAlertThreshold
    timers,                      \* pending QTimer::singleShot callbacks, in arming order
    now,                         \* QDateTime::currentDateTime(), seconds
    trail,                       \* effects of the last handler, in program order
    sentTimes,                   \* history: times of all alerts that were sent
    alerted,                     \* history: name -> value an alert was triggered for and
                                 \*   that every tick since has observed (None otherwise)
    extChanges,                  \* history: number of modifications made by other
                                 \*   processes (monitored values, configuration file)
    accepted,                    \* history: name -> pending value republished by
                                 \*   allowChange that the external resource has held
                                 \*   ever since (None otherwise)
    writable,                    \* the external resource accepts the writes of the
                                 \*   program (QSettings::setValue takes effect)
    keyFile,                     \* resources/encryptionKeys.json as it is on disk
    EncryptionUtils              \* the statics of EncryptionUtils: encryptionKey,
                                 \*   encryptionIv, lastKeyFileModified (0: invalid)

vars == << platform, m_monitoringActive, timerActive, m_registryKeys, heap, registry,
           m_lastAlertedValue, Changes, ConfigurationSettings, UserSettings,
           awsClients, m_alertTimestamps, m_notificationFrequency,
           m_nonCriticalAlertThreshold, timers, now, trail, sentTimes,
           alerted, extChanges, accepted, writable, keyFile, EncryptionUtils >>

----------------------------------------------------------------------------
(* Bounds of the model *)

MaxExtChanges == 2
MaxDebounceChanges == 3
MaxDivergences == 6
MaxClock == 3
MaxKeyWrites == 2

(* Program constants *)

OneHour == 3600
DefaultFreq == 10
TimeStep == OneHour \div 2

----------------------------------------------------------------------------
(* Domains *)

NoValue == ""
None == "<none>"
Values == {NoValue, "500", "100"}
Names == {"DoubleClickSpeed"}
Frequencies == {"Never", "1"}
Thresholds == {"", "2"}
Channels == {"email", "sms"}

ConfigFile ==
    << [name |-> "DoubleClickSpeed", path |-> "Control Panel\\Mouse", isCritical |-> TRUE] >>

\* what the parser can return at a reload: nothing (file missing, not a JSON
\* array, no valid entry) or the entries of the file
ConfigFiles == {<< >>, ConfigFile}

Paths == {ConfigFile[i].path : i \in DOMAIN ConfigFile}

toInt(s) ==
    CASE s = "1" -> 1
      [] s = "2" -> 2
      [] s = "3" -> 3
      [] OTHER -> 0

isNever(s) == s = "Never"

----------------------------------------------------------------------------
(* The program state as one record, and the trail of a handler *)

Cur ==
    [ platform |-> platform, m_monitoringActive |-> m_monitoringActive,
      timerActive |-> timerActive, m_registryKeys |-> m_registryKeys, heap |-> heap,
      registry |-> registry, m_lastAlertedValue |-> m_lastAlertedValue,
      Changes |-> Changes, ConfigurationSettings |-> ConfigurationSettings,
      UserSettings |-> UserSettings, awsClients |-> awsClients,
      m_alertTimestamps |-> m_alertTimestamps,
      m_notificationFrequency |-> m_notificationFrequency,
      m_nonCriticalAlertThreshold |-> m_nonCriticalAlertThreshold,
      timers |-> timers, now |-> now, trail |-> << >>, sentTimes |-> sentTimes,
      alerted |-> alerted, extChanges |-> extChanges, accepted |-> accepted,
      writable |-> writable, keyFile |-> keyFile, EncryptionUtils |-> EncryptionUtils ]

\* an item object that no list and no pending callback refers to any more can
\* no longer be read or written: its fields are blanked
Discarded ==
    [name |-> "", path |-> "", isCritical |-> FALSE, value |-> NoValue,
     previousValue |-> NoValue, newValue |-> NoValue, changeCount |-> 0,
     rollbackCancelled |-> FALSE]

Referenced(s, id) ==
    \/ \E i \in DOMAIN s.m_registryKeys : s.m_registryKeys[i] = id
    \/ \E i \in DOMAIN s.timers : s.timers[i].id = id

Commit(s) ==
    /\ platform' = s.platform
    /\ m_monitoringActive' = s.m_monitoringActive
    /\ timerActive' = s.timerActive
    /\ m_registryKeys' = s.m_registryKeys
    /\ heap' = [id \in DOMAIN s.heap |->
                    IF Referenced(s, id) THEN s.heap[id] ELSE Discarded]
    /\ registry' = s.registry
    /\ m_lastAlertedValue' = s.m_lastAlertedValue
    /\ Changes' = s.Changes
    /\ ConfigurationSettings' = s.ConfigurationSettings
    /\ UserSettings' = s.UserSettings
    /\ awsClients' = s.awsClients
    /\ m_alertTimestamps' = s.m_alertTimestamps
    /\ m_notificationFrequency' = s.m_notificationFrequency
    /\ m_nonCriticalAlertThreshold' = s.m_nonCriticalAlertThreshold
    /\ timers' = s.timers
    /\ now' = s.now
    /\ trail' = s.trail
    /\ sentTimes' = s.sentTimes
    /\ alerted' = s.alerted
    /\ extChanges' = s.extChanges
    /\ accepted' = [n \in DOMAIN s.accepted |->
                        IF s.registry[n] = s.accepted[n] THEN s.accepted[n] ELSE None]
    /\ writable' = s.writable
    /\ keyFile' = s.keyFile
    /\ EncryptionUtils' = s.EncryptionUtils

\* One effect of a handler.  id: item object, name: value name, old/value: values,
\* flag: a boolean of the effect, why: a tag of the effect, n: a number of the effect.
Ev(type, id, name, old, value, flag, why, n) ==
    [type |-> type, id |-> id, name |-> name, old |-> old, value |-> value,
     flag |-> flag, why |-> why, n |-> n]

Emit(s, e) == [s EXCEPT !.trail = Append(@, e)]

----------------------------------------------------------------------------
(* EncryptionUtils.  A byte array is a sequence of symbols, the empty array
   is << >>.  Key material is named by a string; KeySize gives its length
   after base64 decoding. *)

NoBytes == << >>

\* the text the program gets when it reads bytes that are no UTF-8 of a plaintext
Unreadable == "<ciphertext>"

toUtf8(str) == IF str = "" THEN NoBytes ELSE << str >>

fromUtf8(b) ==
    IF b = NoBytes THEN ""
    ELSE IF Len(b) = 1 THEN b[1] ELSE Unreadable

toBase64(b) == IF b = NoBytes THEN NoBytes ELSE << "b64" >> \o b

\* the decoder is lenient: input that is no base64 text decodes to junk
fromBase64(b) ==
    IF b = NoBytes THEN NoBytes
    ELSE IF b[1] = "b64" THEN Tail(b) ELSE << "junk" >>

\* EVP_aes_256_cbc: the ciphertext of one plaintext under one key and IV
aes256cbc(key, iv, input) == << "aes", key, iv >> \o input

KeySize(m) ==
    CASE m \in {"K1", "K2", "K3"} -> 32
      [] m \in {"IV1", "IV2", "IV3"} -> 16
      [] m = "K16" -> 16
      [] m = "IV8" -> 8
      [] OTHER -> 0

\* the key pair in the file when the program is built, in the file and loaded
InitKeyFile == [exists |-> TRUE, key |-> "K1", iv |-> "IV1", mtime |-> 1]

InitKeys ==
    [keyFile |-> InitKeyFile,
     EncryptionUtils |-> [encryptionKey |-> "K1", encryptionIv |-> "IV1",
                          lastKeyFileModified |-> 1]]

\* the load assigning the key before the IV is validated
loadEncryptionKeysKeyFirst(s) ==
    LET f == s.keyFile
    IN  IF ~f.exists THEN s
        ELSE IF f.key = None \/ f.iv = None THEN s
        ELSE IF KeySize(f.key) # 32 THEN s
        ELSE IF KeySize(f.iv) # 16
        THEN [s EXCEPT !.EncryptionUtils.encryptionKey = f.key]
        ELSE [s EXCEPT !.EncryptionUtils =
                           [encryptionKey |-> f.key, encryptionIv |-> f.iv,
                            lastKeyFileModified |-> f.mtime]]

loadEncryptionKeys(s) ==
    LET f == s.keyFile
    IN  IF ~f.exists THEN s
        ELSE IF f.key = None \/ f.iv = None THEN s
        ELSE IF KeySize(f.key) # 32 THEN s
        ELSE IF KeySize(f.iv) # 16 THEN s
        ELSE [s EXCEPT !.EncryptionUtils =
                           [encryptionKey |-> f.key, encryptionIv |-> f.iv,
                            lastKeyFileModified |-> f.mtime]]

\* QFileInfo::lastModified() of a file that does not exist is invalid, and an
\* invalid date is not later than any date
maybeReloadKeys(s) ==
    IF s.EncryptionUtils.lastKeyFileModified = 0
       \/ (s.keyFile.exists /\ s.keyFile.mtime > s.EncryptionUtils.lastKeyFileModified)
    THEN loadEncryptionKeys(s)
    ELSE s

\* the program state after a call of encrypt or decrypt with this argument
afterCrypt(s, empty) == IF empty THEN s ELSE maybeReloadKeys(s)

\* the value a call of encrypt returns
encrypt(s, data) ==
    LET k == afterCrypt(s, data = "").EncryptionUtils
    IN  IF data = "" THEN NoBytes
        ELSE IF k.encryptionKey = "" \/ k.encryptionIv = "" THEN NoBytes
        ELSE toBase64(aes256cbc(k.encryptionKey, k.encryptionIv, toUtf8(data)))

\* the value a call of decrypt returns; what is no ciphertext of the loaded key
\* and IV is taken to fail the padding check of EVP_DecryptFinal_ex
decrypt(s, encryptedData) ==
    LET k == afterCrypt(s, encryptedData = NoBytes).EncryptionUtils
        cipher == fromBase64(encryptedData)
    IN  IF encryptedData = NoBytes THEN ""
        ELSE IF k.encryptionKey = "" \/ k.encryptionIv = "" THEN ""
        ELSE IF /\ Len(cipher) > 3
                /\ cipher[1] = "aes"
                /\ cipher[2] = k.encryptionKey
                /\ cipher[3] = k.encryptionIv
        THEN fromUtf8(SubSeq(cipher, 4, Len(cipher)))
        ELSE ""

----------------------------------------------------------------------------
(* Database.  The tables hold what the statements bind: UserSettings and
   Changes hold the sensitive columns as the base64 text of the value encrypt
   returned; ConfigurationSettings is kept by the plaintext of config_value.
   SQL NULL is the empty array. *)

ValidEmails == {"admin@example.com", "ops@example.com"}
ValidPhones == {"+15551234567", "+15557654321"}

isValidEmail(email) == email \in ValidEmails
isValidPhoneNumber(phone) == phone \in ValidPhones

\* what insertUserSettings binds for one contact column
contactColumn(s, text) == IF text = "" THEN NoBytes ELSE toBase64(encrypt(s, text))

\* UNIQUE KEY unique_email (user_email), UNIQUE KEY unique_phone (phone_number):
\* the row can be stored next to the rows at the positions in `others`
uniqueAmong(rows, others, row) ==
    \A i \in others :
        /\ row.user_email = NoBytes \/ rows[i].user_email # row.user_email
        /\ row.phone_number = NoBytes \/ rows[i].phone_number # row.phone_number

\* the event of a write of user settings: name = email, old = phone,
\* value = frequency, n = threshold, flag = the value returned, why = what the
\* statement did
userSettingsEvent(type, email, phone, threshold, frequency, result, why) ==
    Ev(type, 0, email, phone, frequency, result, why, threshold)

insertUserSettings(s, email, phone, threshold, notificationFrequency) ==
    IF email = "" /\ phone = ""
    THEN Emit(s, userSettingsEvent("insertUserSettings", email, phone, threshold,
                                   notificationFrequency, FALSE, "empty"))
    ELSE LET s1 == afterCrypt(s, FALSE)
             row == [user_email |-> contactColumn(s, email),
                     phone_number |-> contactColumn(s, phone),
                     non_critical_threshold |-> threshold,
                     notification_frequency |-> notificationFrequency]
         IN  IF uniqueAmong(s1.UserSettings, DOMAIN s1.UserSettings, row)
             THEN Emit([s1 EXCEPT !.UserSettings = Append(@, row)],
                       userSettingsEvent("insertUserSettings", email, phone, threshold,
                                         notificationFrequency, TRUE, "inserted"))
             ELSE Emit(s1, userSettingsEvent("insertUserSettings", email, phone, threshold,
                                             notificationFrequency, FALSE, "duplicate"))

\* SELECT id FROM UserSettings WHERE user_email = :email (or phone_number = :phone)
existingId(s, email, phone) ==
    LET found == {i \in DOMAIN s.UserSettings :
                     IF email # ""
                     THEN s.UserSettings[i].user_email = toBase64(encrypt(s, email))
                     ELSE s.UserSettings[i].phone_number = toBase64(encrypt(s, phone))}
    IN  IF found = {} THEN 0 ELSE CHOOSE i \in found : \A j \in found : i <= j

insertOrUpdateUserSettings(s, email, phone, threshold, notificationFrequency) ==
    IF email # "" /\ ~isValidEmail(email)
    THEN Emit(s, userSettingsEvent("insertOrUpdateUserSettings", email, phone, threshold,
                                   notificationFrequency, FALSE, "invalidEmail"))
    ELSE IF phone # "" /\ ~isValidPhoneNumber(phone)
    THEN Emit(s, userSettingsEvent("insertOrUpdateUserSettings", email, phone, threshold,
                                   notificationFrequency, FALSE, "invalidPhone"))
    ELSE IF email = "" /\ phone = ""
    THEN Emit(s, userSettingsEvent("insertOrUpdateUserSettings", email, phone, threshold,
                                   notificationFrequency, FALSE, "empty"))
    ELSE
      LET s1 == afterCrypt(s, FALSE)
          id == existingId(s1, email, phone)
      IN  IF id # 0
          THEN LET row == [s1.UserSettings[id] EXCEPT
                              !.phone_number = contactColumn(s1, phone),
                              !.non_critical_threshold = threshold,
                              !.notification_frequency = notificationFrequency]
               IN  IF uniqueAmong(s1.UserSettings, DOMAIN s1.UserSettings \ {id}, row)
                   THEN Emit([s1 EXCEPT !.UserSettings[id] = row],
                             userSettingsEvent("insertOrUpdateUserSettings", email, phone,
                                               threshold, notificationFrequency, TRUE,
                                               "updated"))
                   ELSE Emit(s1, userSettingsEvent("insertOrUpdateUserSettings", email,
                                                   phone, threshold, notificationFrequency,
                                                   FALSE, "updateFailed"))
          ELSE LET s2 == insertUserSettings(s1, email, phone, threshold,
                                            notificationFrequency)
               IN  Emit(s2, userSettingsEvent("insertOrUpdateUserSettings", email, phone,
                                              threshold, notificationFrequency, TRUE,
                                              s2.trail[Len(s2.trail)].why))

getAllUserSettings(s) ==
    [i \in DOMAIN s.UserSettings |->
        [email |-> decrypt(s, fromBase64(s.UserSettings[i].user_email)),
         phone |-> decrypt(s, fromBase64(s.UserSettings[i].phone_number)),
         threshold |-> s.UserSettings[i].non_critical_threshold]]

\* the insert putting the new row in front of the existing ones
insertChangeFirst(s, configName, oldValue, newValue, acknowledged, critical) ==
    LET s1 == afterCrypt(s, oldValue = "" /\ newValue = "")
        row == [config_name |-> configName,
                old_value |-> toBase64(encrypt(s, oldValue)),
                new_value |-> toBase64(encrypt(s, newValue)),
                acknowledged |-> acknowledged, critical |-> critical]
    IN  Emit([s1 EXCEPT !.Changes = << row >> \o @],
             Ev("insertChange", 0, configName, oldValue, newValue, critical, "", 0))

insertChange(s, configName, oldValue, newValue, acknowledged, critical) ==
    LET s1 == afterCrypt(s, oldValue = "" /\ newValue = "")
        row == [config_name |-> configName,
                old_value |-> toBase64(encrypt(s, oldValue)),
                new_value |-> toBase64(encrypt(s, newValue)),
                acknowledged |-> acknowledged, critical |-> critical]
    IN  Emit([s1 EXCEPT !.Changes = Append(@, row)],
             Ev("insertChange", 0, configName, oldValue, newValue, critical, "", 0))

\* the rows as the reads return them: the columns are copied as text
getAllChanges(s) ==
    [i \in DOMAIN s.Changes |->
        [config_name |-> s.Changes[i].config_name,
         old_value |-> fromUtf8(s.Changes[i].old_value),
         new_value |-> fromUtf8(s.Changes[i].new_value),
         acknowledged |-> s.Changes[i].acknowledged]]

insertOrUpdateConfiguration(s, configName, configPath, configValue, isCritical) ==
    Emit([afterCrypt(s, configValue = "") EXCEPT !.ConfigurationSettings[configName] =
                [present |-> TRUE, config_path |-> configPath,
                 config_value |-> configValue, is_critical |-> isCritical]],
         Ev("insertOrUpdateConfiguration", 0, configName, "", configValue, isCritical, "", 0))

\* UPDATE Changes SET acknowledged = TRUE WHERE config_name = :n AND acknowledged = FALSE
AckRows(rows, configName) ==
    [i \in DOMAIN rows |->
        IF rows[i].config_name = configName /\ ~rows[i].acknowledged
        THEN [rows[i] EXCEPT !.acknowledged = TRUE] ELSE rows[i]]

NumRowsAffected(rows, configName) ==
    Cardinality({i \in DOMAIN rows :
                    rows[i].config_name = configName /\ ~rows[i].acknowledged})

updateAcknowledgmentStatus(s, configName) ==
    Emit([s EXCEPT !.Changes = AckRows(@, configName)],
         Ev("updateAcknowledgmentStatus", 0, configName, "", "",
            NumRowsAffected(s.Changes, configName) > 0, "", 0))

----------------------------------------------------------------------------
(* Monitored item: RegistryKey / PlistFile *)

NewItem(c, reg) ==
    [name |-> c.name, path |-> c.path, isCritical |-> c.isCritical,
     value |-> reg[c.name], previousValue |-> reg[c.name], newValue |-> NoValue,
     changeCount |-> 0, rollbackCancelled |-> FALSE]

getCurrentValue(s, id) == s.registry[s.heap[id].name]

\* m_settings->setValue(m_valueName, v); m_settings->sync()
writeSettings(s, name, v) ==
    IF s.writable THEN [s EXCEPT !.registry[name] = v] ELSE s

setValue(s, id, v) ==
    LET o == s.heap[id]
    IN  IF o.value # v
        THEN Emit(writeSettings([s EXCEPT !.heap[id].previousValue = o.value,
                                          !.heap[id].value = v], o.name, v),
                  Ev("setValue", id, o.name, o.value, v, TRUE, "", 0))
        ELSE Emit(s, Ev("setValue", id, o.name, o.value, v, FALSE, "", 0))

setPreviousValue(s, id, v) == [s EXCEPT !.heap[id].previousValue = v]
setNewValue(s, id, v) == [s EXCEPT !.heap[id].newValue = v]
setRollbackCancelled(s, id, b) == [s EXCEPT !.heap[id].rollbackCancelled = b]
\* the switch of criticality starting a new count
setCriticalResetCount(s, id, b) ==
    [s EXCEPT !.heap[id].isCritical = b, !.heap[id].changeCount = 0]

setCritical(s, id, b) == [s EXCEPT !.heap[id].isCritical = b]
incrementChangeCount(s, id) == [s EXCEPT !.heap[id].changeCount = @ + 1]
\* the reset that leaves the count as it is
resetChangeCountKeep(s, id) == s

resetChangeCount(s, id) == [s EXCEPT !.heap[id].changeCount = 0]

----------------------------------------------------------------------------
(* Alert::sendAlert: contacts from the database, sliding one-hour window.
   net: the channels whose transport accepts a message during this handler *)

validContactFound(rows) ==
    \E i \in DOMAIN rows : rows[i].email # "" \/ rows[i].phone # ""

anySentAlways(rows, net) == TRUE

anySent(rows, net) ==
    \E i \in DOMAIN rows :
        \/ rows[i].email # "" /\ "email" \in net
        \/ rows[i].phone # "" /\ "sms" \in net

sendEmailAlert(s, email, net) ==
    Emit(s, Ev("sendEmailAlert", 0, email, "", "", "email" \in net, "", 0))

sendSmsAlert(s, phone, net) ==
    Emit(s, Ev("sendSmsAlert", 0, phone, "", "", "sms" \in net, "", 0))

\* the loop over the contacts: one delivery attempt per configured channel
RECURSIVE deliver(_, _, _)
deliver(s, rows, net) ==
    IF rows = << >> THEN s
    ELSE LET r == Head(rows)
             s1 == IF r.email # "" THEN sendEmailAlert(s, r.email, net) ELSE s
             s2 == IF r.phone # "" THEN sendSmsAlert(s1, r.phone, net) ELSE s1
         IN  deliver(s2, Tail(rows), net)

effectiveFreq(s) ==
    IF toInt(s.m_notificationFrequency) <= 0 THEN DefaultFreq
    ELSE toInt(s.m_notificationFrequency)

pruneOld(ts, t) == SelectSeq(ts, LAMBDA x : ~(x < t - OneHour))

underLimitInclusive(ts, freq) == Len(ts) <= freq

underLimit(ts, freq) == Len(ts) < freq

\* history: how many alerts were sent during the hour that ends at time t
sentInLastHour(s, t) == Len(SelectSeq(s.sentTimes, LAMBDA x : x >= t - OneHour))

\* the event of one call: old = kind of alert, flag = the value returned,
\* n = alerts sent during the last hour before the call
sendAlertEvent(s, kind, name, value, result, why) ==
    Ev("sendAlert", 0, name, kind, value, result, why, sentInLastHour(s, s.now))

\* getAllUserSettings decrypts the contact columns that are not NULL
readsContacts(s) ==
    \E i \in DOMAIN s.UserSettings :
        s.UserSettings[i].user_email # NoBytes \/ s.UserSettings[i].phone_number # NoBytes

sendAlert(s0, kind, name, value, net) ==
    IF ~s0.awsClients
    THEN Emit(s0, sendAlertEvent(s0, kind, name, value, FALSE, "noclients"))
    ELSE
      LET s == afterCrypt(s0, ~readsContacts(s0))
          userSettings == getAllUserSettings(s0)
      IN  IF userSettings = << >>
          THEN Emit(s, sendAlertEvent(s, kind, name, value, FALSE, "nosettings"))
          ELSE IF ~validContactFound(userSettings)
          THEN Emit(s, sendAlertEvent(s, kind, name, value, FALSE, "nocontact"))
          ELSE
            LET s1 == [s EXCEPT !.m_alertTimestamps = pruneOld(@, s.now)]
            IN  IF underLimit(s1.m_alertTimestamps, effectiveFreq(s1))
                THEN LET s2 == deliver(s1, userSettings, net)
                     IN  IF anySent(userSettings, net)
                         THEN Emit([s2 EXCEPT !.m_alertTimestamps = Append(@, s2.now),
                                              !.sentTimes = Append(@, s2.now)],
                                   sendAlertEvent(s, kind, name, value, TRUE, "sent"))
                         ELSE Emit(s2, sendAlertEvent(s, kind, name, value, FALSE,
                                                      "failed"))
                ELSE Emit(s1, sendAlertEvent(s, kind, name, value, FALSE, "ratelimit"))

----------------------------------------------------------------------------
(* WindowsRollback / MacOSRollback *)

restorePreviousValue(s, id) ==
    LET o == s.heap[id]
        prevValue == o.previousValue
        current == getCurrentValue(s, id)
    IN  IF current = prevValue THEN s
        ELSE Emit(writeSettings(s, o.name, prevValue),
                  Ev("restore", id, o.name, current, prevValue,
                     writeSettings(s, o.name, prevValue).registry[o.name] = prevValue, "", 0))

\* the slot connected to rollbackPerformed in the monitoring constructor
rollbackPerformed(s, id, net) ==
    LET s1 == Emit(s, Ev("criticalChangeDetected", id, s.heap[id].name, "", "", TRUE, "", 0))
    IN  IF s.platform = "mac"
        THEN sendAlert(s1, "revert", s.heap[id].name, "", net)
        ELSE s1

rollbackIfNeeded(s, id, net) ==
    LET o == s.heap[id]
        prevValue == o.previousValue
        current == getCurrentValue(s, id)
    IN  IF o.isCritical /\ current # prevValue
        THEN rollbackPerformed(
                 insertOrUpdateConfiguration(
                     restorePreviousValue(setNewValue(s, id, current), id),
                     o.name, o.path, prevValue, TRUE),
                 id, net)
        ELSE s

cancelRollback(s, id) ==
    LET s1 == setRollbackCancelled(s, id, TRUE)
        newVal == s1.heap[id].newValue
    IN  IF newVal # NoValue THEN setValue(s1, id, newVal) ELSE s1

----------------------------------------------------------------------------
(* History kept in the pending timers: whether the divergence was detected
   with the exemption flag of an earlier allowChange set, whether allowChange was called
   for the timer's item since it was armed (and whether more than once),
   whether a divergence of the item was detected after that call, and whether
   an older timer that got the same single call was suppressed by it.  History kept per item name: the value an alert
   was triggered for, forgotten as soon as a tick reads another value *)

noteAllow(s, keyName) ==
    [s EXCEPT !.timers = [i \in DOMAIN @ |->
        IF @[i].name = keyName
        THEN [@[i] EXCEPT !.allowed = TRUE, !.divAfterAllow = FALSE,
                          !.calls = IF @ = 0 THEN 1 ELSE 2] ELSE @[i]]]

\* a timer that got exactly one allowChange call was suppressed: the younger
\* timers of the item that got exactly one call got that same call
notePeerSuppressed(s, t) ==
    [s EXCEPT !.timers = [i \in DOMAIN @ |->
        IF @[i].name = t.name /\ @[i].calls = 1 /\ t.calls = 1
        THEN [@[i] EXCEPT !.peerSuppressed = TRUE] ELSE @[i]]]

noteDivergence(s, name) ==
    [s EXCEPT !.timers = [i \in DOMAIN @ |->
        IF @[i].name = name /\ @[i].allowed
        THEN [@[i] EXCEPT !.divAfterAllow = TRUE] ELSE @[i]]]

noteObserved(s, name, v) ==
    IF s.alerted[name] # v THEN [s EXCEPT !.alerted[name] = None] ELSE s

noteAlert(s, name, v) == [s EXCEPT !.alerted[name] = v]

\* the fields of the item when a divergence is detected: old = previousValue,
\* value = newValue, flag = rollbackCancelled, n = changeCount; why = the value of
\* the history `accepted` when the tick read the item
itemBefore(s, id) ==
    Ev("itemBefore", id, s.heap[id].name, s.heap[id].previousValue,
       s.heap[id].newValue, s.heap[id].rollbackCancelled, s.accepted[s.heap[id].name],
       s.heap[id].changeCount)

\* the divergence: old = cached value, value = observed value, flag = isCritical,
\* why = the value of the history `alerted` when the tick read the item
detect(s, id, currentValue) ==
    Emit(Emit(noteDivergence(s, s.heap[id].name),
              Ev("detect", id, s.heap[id].name, s.heap[id].value, currentValue,
                 s.heap[id].isCritical, s.alerted[s.heap[id].name], 0)),
         itemBefore(s, id))

----------------------------------------------------------------------------
(* WindowsMonitoring::checkForChanges, one iteration of the loop over the keys *)

\* when this tick detected the divergence of the item, its exemption flag was
\* set and the value republished by allowChange was the cached one
exemptBefore(s, id) ==
    \E i \in DOMAIN s.trail :
        /\ i > 1
        /\ s.trail[i].type = "itemBefore" /\ s.trail[i].id = id /\ s.trail[i].flag
        /\ s.trail[i].old = s.trail[i - 1].old

armDelayedAlert(s, id, currentValue) ==
    Emit([noteAlert(s, s.heap[id].name, currentValue)
             EXCEPT !.timers = Append(@, [id |-> id, name |-> s.heap[id].name,
                                          value |-> currentValue, allowed |-> FALSE,
                                          divAfterAllow |-> FALSE,
                                          afterAllow |-> exemptBefore(s, id),
                                          calls |-> 0, peerSuppressed |-> FALSE])],
         Ev("singleShot", id, s.heap[id].name, "", currentValue, TRUE, "", 0))

\* the end of a tick without the final setValue: the cache is not advanced
persistFinalKeepCache(s, id, currentValue, isCritical) ==
    insertOrUpdateConfiguration(s, s.heap[id].name, s.heap[id].path,
                                currentValue, isCritical)

persistFinal(s, id, currentValue, isCritical) ==
    setValue(insertOrUpdateConfiguration(s, s.heap[id].name, s.heap[id].path,
                                         currentValue, isCritical),
             id, currentValue)

thresholdReachedStrict(threshold, count) == threshold > 0 /\ count > threshold

thresholdReached(threshold, count) == threshold > 0 /\ count >= threshold

debouncedNever(s, name, currentValue) == FALSE

debounced(s, name, currentValue) == s.m_lastAlertedValue[name] = currentValue

\* the tick that records nothing for the debounce
recordLastAlertedSkip(s, id, currentValue) ==
    Emit(s, Ev("lastAlerted", id, s.heap[id].name, "", currentValue, TRUE, "", 0))

recordLastAlerted(s, id, currentValue) ==
    Emit([s EXCEPT !.m_lastAlertedValue[s.heap[id].name] = currentValue],
         Ev("lastAlerted", id, s.heap[id].name, "", currentValue, TRUE, "", 0))

acceptDebounced(s, id, currentValue) ==
    setValue(Emit(s, Ev("debounced", id, s.heap[id].name, "", currentValue, TRUE, "", 0)),
             id, currentValue)

\* the critical branch without the reset of the exemption flag
winCriticalKeepFlag(s, id, currentValue, net) ==
    LET s1 == setNewValue(s, id, currentValue)
        s2 == rollbackIfNeeded(s1, id, net)
        s3 == armDelayedAlert(s2, id, currentValue)
    IN  persistFinal(s3, id, currentValue, s3.heap[id].isCritical)

winCritical(s, id, currentValue, net) ==
    LET s1 == setNewValue(setRollbackCancelled(s, id, FALSE), id, currentValue)
        s2 == rollbackIfNeeded(s1, id, net)
        s3 == armDelayedAlert(s2, id, currentValue)
    IN  persistFinal(s3, id, currentValue, s3.heap[id].isCritical)

\* the non-critical branch handling the item as a critical one
winNonCriticalRollback(s, id, currentValue, net) ==
    winCritical(s, id, currentValue, net)

winNonCritical(s, id, currentValue, net) ==
    LET s1 == incrementChangeCount(s, id)
        threshold == toInt(s1.m_nonCriticalAlertThreshold)
        count == s1.heap[id].changeCount
    IN  IF thresholdReached(threshold, count)
        THEN LET s2 == Emit(resetChangeCount(s1, id),
                            Ev("thresholdReached", id, s1.heap[id].name, "",
                               currentValue, TRUE, "", count))
                 s3 == IF ~isNever(s2.m_notificationFrequency)
                       THEN sendAlert(noteAlert(s2, s2.heap[id].name, currentValue),
                                      "noncritical", s2.heap[id].name, currentValue, net)
                       ELSE Emit(s2, Ev("alertsDisabled", id, s2.heap[id].name, "",
                                        currentValue, TRUE, "", 0))
             IN  persistFinal(s3, id, currentValue, s3.heap[id].isCritical)
        ELSE persistFinal(s1, id, currentValue, FALSE)

\* the same loop body with the Change Event written only on the alerting path
winCheckKeyLogAfterDebounce(s, id, net) ==
    LET key == s.heap[id]
        currentValue == getCurrentValue(s, id)
        s0 == noteObserved(s, key.name, currentValue)
    IN  IF currentValue = key.value THEN s0
        ELSE IF debounced(s0, key.name, currentValue)
        THEN acceptDebounced(detect(s0, id, currentValue), id, currentValue)
        ELSE LET s1 == insertChange(detect(s0, id, currentValue), key.name, key.value,
                                    currentValue, FALSE, FALSE)
                 s2 == recordLastAlerted(s1, id, currentValue)
             IN  IF key.isCritical
                 THEN winCritical(s2, id, currentValue, net)
                 ELSE winNonCritical(s2, id, currentValue, net)

winCheckKey(s, id, net) ==
    LET key == s.heap[id]
        currentValue == getCurrentValue(s, id)
        prevValue == key.value
        s0 == noteObserved(s, key.name, currentValue)
    IN  IF currentValue = prevValue THEN s0
        ELSE
          LET s1 == insertChange(detect(s0, id, currentValue), key.name, prevValue,
                                 currentValue, FALSE, FALSE)
          IN  IF debounced(s1, key.name, currentValue)
              THEN acceptDebounced(s1, id, currentValue)
              ELSE
                LET s2 == recordLastAlerted(s1, id, currentValue)
                IN  IF key.isCritical
                    THEN winCritical(s2, id, currentValue, net)
                    ELSE winNonCritical(s2, id, currentValue, net)

(* MacOSMonitoring::checkForChanges, one iteration of the loop over the plists *)

macFinish(s, id, kind, currentValue, net) ==
    persistFinal(sendAlert(noteAlert(s, s.heap[id].name, currentValue),
                           kind, s.heap[id].name, currentValue, net),
                 id, currentValue, s.heap[id].isCritical)

\* the macOS critical branch without the call of the rollback manager
macCriticalNoRollback(s, id, currentValue, net) ==
    macFinish(setNewValue(setRollbackCancelled(s, id, FALSE), id, currentValue),
              id, "critical", currentValue, net)

macCritical(s, id, currentValue, net) ==
    LET s1 == setNewValue(setRollbackCancelled(s, id, FALSE), id, currentValue)
        s2 == rollbackIfNeeded(s1, id, net)
    IN  macFinish(s2, id, "critical", currentValue, net)

macNonCritical(s, id, currentValue, net) ==
    LET s1 == incrementChangeCount(s, id)
        threshold == toInt(s1.m_nonCriticalAlertThreshold)
        count == s1.heap[id].changeCount
    IN  IF thresholdReached(threshold, count)
        THEN macFinish(Emit(resetChangeCount(s1, id),
                            Ev("thresholdReached", id, s1.heap[id].name, "",
                               currentValue, TRUE, "", count)),
                       id, "noncritical", currentValue, net)
        ELSE persistFinal(s1, id, currentValue, FALSE)

macCheckPlist(s, id, net) ==
    LET plist == s.heap[id]
        currentValue == getCurrentValue(s, id)
        prevValue == plist.value
        s0 == noteObserved(s, plist.name, currentValue)
    IN  IF currentValue = prevValue THEN s0
        ELSE
          LET s1 == insertChange(detect(s0, id, currentValue), plist.name, prevValue,
                                 currentValue, FALSE, FALSE)
          IN  IF debounced(s1, plist.name, currentValue)
              THEN acceptDebounced(s1, id, currentValue)
              ELSE
                LET s2 == recordLastAlerted(s1, id, currentValue)
                IN  IF plist.isCritical
                    THEN macCritical(s2, id, currentValue, net)
                    ELSE macNonCritical(s2, id, currentValue, net)

RECURSIVE checkForChanges(_, _, _)
checkForChanges(s, ids, net) ==
    IF ids = << >> THEN s
    ELSE checkForChanges(IF s.platform = "win" THEN winCheckKey(s, Head(ids), net)
                         ELSE macCheckPlist(s, Head(ids), net),
                         Tail(ids), net)

----------------------------------------------------------------------------
(* The delayed-alert callback armed by WindowsMonitoring::checkForChanges *)

\* flag: allowChange was called for the item since the timer was armed; n: 1 when
\* the item object of the timer is still in the monitored list, 0 after a reload;
\* old: "afterAllow" when the divergence was detected after an allowChange
timeoutEvent(s, t) ==
    Ev("timeout", t.id, t.name, IF t.afterAllow THEN "afterAllow" ELSE "", t.value, t.allowed,
       IF t.divAfterAllow THEN "divAfterAllow" ELSE "",
       IF \E i \in DOMAIN s.m_registryKeys : s.m_registryKeys[i] = t.id THEN 1 ELSE 0)

\* n: allowChange calls for the item since the timer was armed (2: two or more);
\* flag: an older timer that got the same single call was suppressed;
\* why: "exempt" when the exemption flag of the timer's item object is set;
\* old: "running" when the monitoring loop is running
timerHistory(s, t) ==
    Ev("timerHistory", t.id, t.name,
       IF s.m_monitoringActive THEN "running" ELSE "",
       t.value, t.peerSuppressed,
       IF s.heap[t.id].rollbackCancelled THEN "exempt" ELSE "", t.calls)

\* the callback doing nothing once the monitoring loop is stopped
delayedAlertIfRunning(s, net) ==
    LET t == Head(s.timers)
        s1 == Emit(Emit([s EXCEPT !.timers = Tail(@)], timeoutEvent(s, t)),
                   timerHistory(s, t))
    IN  IF ~s1.m_monitoringActive THEN s1
        ELSE IF ~s1.heap[t.id].rollbackCancelled
        THEN IF isNever(s1.m_notificationFrequency)
             THEN Emit(s1, Ev("alertsDisabled", t.id, t.name, "", t.value, TRUE, "", 0))
             ELSE sendAlert(s1, "critical", t.name, t.value, net)
        ELSE Emit(notePeerSuppressed(s1, t),
                  Ev("acknowledgedBeforeDelay", t.id, t.name, "", t.value, TRUE, "", 0))

delayedAlert(s, net) ==
    LET t == Head(s.timers)
        s1 == Emit(Emit([s EXCEPT !.timers = Tail(@)], timeoutEvent(s, t)),
                   timerHistory(s, t))
    IN  IF ~s1.heap[t.id].rollbackCancelled
        THEN IF isNever(s1.m_notificationFrequency)
             THEN Emit(s1, Ev("alertsDisabled", t.id, t.name, "", t.value, TRUE, "", 0))
             ELSE sendAlert(s1, "critical", t.name, t.value, net)
        ELSE Emit(notePeerSuppressed(s1, t),
                  Ev("acknowledgedBeforeDelay", t.id, t.name, "", t.value, TRUE, "", 0))

----------------------------------------------------------------------------
(* allowChange and setKeyCriticalStatus / setFileCriticalStatus *)

Matches(s, keyName) ==
    {i \in DOMAIN s.m_registryKeys :
        IF s.platform = "win" THEN s.heap[s.m_registryKeys[i]].name = keyName
        ELSE s.heap[s.m_registryKeys[i]].path = keyName}

FirstMatch(s, keyName) ==
    s.m_registryKeys[CHOOSE i \in Matches(s, keyName) :
                        \A j \in Matches(s, keyName) : i <= j]

alreadyAck(s, keyName) ==
    \E i \in DOMAIN s.Changes :
        s.Changes[i].config_name = keyName /\ s.Changes[i].acknowledged

\* history: the call republished the pending value of the item's latest
\* divergence (its cached value)
noteAccepted(s, id, pending, cached) ==
    IF pending = cached THEN [s EXCEPT !.accepted[s.heap[id].name] = pending] ELSE s

\* the exemption without the republication of the pending value
exemptKeyNoRepublish(s, id) ==
    noteAccepted(cancelRollback(setRollbackCancelled(s, id, TRUE), id), id,
                 s.heap[id].newValue, s.heap[id].value)

exemptKey(s, id) ==
    LET s1 == cancelRollback(setRollbackCancelled(s, id, TRUE), id)
    IN  noteAccepted(setPreviousValue(s1, id, s1.heap[id].newValue), id,
                     s.heap[id].newValue, s.heap[id].value)

\* the item and its Change Events when allowChange is called: id = the item
\* object the call exempts (0: none), old = its pending value, value = its cached
\* value, n = row of the most recent unacknowledged Change Event (0: none),
\* flag = a row of the item is acknowledged, why = "many" when more than one row
\* is unacknowledged
allowChangeEvent(s, keyName) ==
    LET names == {s.heap[s.m_registryKeys[i]].name : i \in Matches(s, keyName)}
        unack == {k \in DOMAIN s.Changes :
                     s.Changes[k].config_name \in names /\ ~s.Changes[k].acknowledged}
        last == IF unack = {} THEN 0
                ELSE CHOOSE k \in unack : \A m \in unack : m <= k
        id == IF Matches(s, keyName) = {} THEN 0 ELSE FirstMatch(s, keyName)
    IN  Ev("allowChange", id, keyName,
           IF id = 0 THEN "" ELSE s.heap[id].newValue,
           IF id = 0 THEN "" ELSE s.heap[id].value,
           \E k \in DOMAIN s.Changes :
               s.Changes[k].config_name \in names /\ s.Changes[k].acknowledged,
           IF Cardinality(unack) > 1 THEN "many" ELSE "", last)

allowChange(s, keyName) ==
    LET s0 == Emit(noteAllow(s, keyName), allowChangeEvent(s, keyName))
        s1 == IF s0.platform = "win" /\ alreadyAck(s0, keyName) THEN s0
              ELSE updateAcknowledgmentStatus(s0, keyName)
    IN  IF Matches(s1, keyName) = {} THEN s1
        ELSE exemptKey(s1, FirstMatch(s1, keyName))

NameMatches(s, keyName) ==
    {i \in DOMAIN s.m_registryKeys : s.heap[s.m_registryKeys[i]].name = keyName}

setKeyCriticalStatus(s, keyName, isCritical) ==
    IF NameMatches(s, keyName) = {} THEN s
    ELSE LET id == s.m_registryKeys[CHOOSE i \in NameMatches(s, keyName) :
                                       \A j \in NameMatches(s, keyName) : i <= j]
             s1 == setCritical(s, id, isCritical)
         IN  insertOrUpdateConfiguration(s1, s1.heap[id].name, s1.heap[id].path,
                                         s1.heap[id].value, isCritical)

----------------------------------------------------------------------------
(* reloadMonitoredKeys / reloadPlistFiles, run when the configuration file
   changes: newKeys are fresh objects, the old ones are neither changed nor
   deleted *)

RECURSIVE persistDefinitions(_, _)
persistDefinitions(s, ids) ==
    IF ids = << >> THEN s
    ELSE persistDefinitions(
             insertOrUpdateConfiguration(s, s.heap[Head(ids)].name, s.heap[Head(ids)].path,
                                         s.heap[Head(ids)].value,
                                         s.heap[Head(ids)].isCritical),
             Tail(ids))

\* the reload overwriting the objects of the list instead of replacing them
reloadMonitoredKeysInPlace(s, file) ==
    IF file = << >>
    THEN Emit(s, Ev("reloadAborted", 0, "", "", "", TRUE, "", Len(s.m_registryKeys)))
    ELSE LET ids == [i \in DOMAIN file |->
                        IF i \in DOMAIN s.m_registryKeys THEN s.m_registryKeys[i]
                        ELSE Len(s.heap) + i]
             s1 == [s EXCEPT !.heap = [id \in 1..(Len(s.heap) + Len(file)) |->
                                 IF \E i \in DOMAIN file : ids[i] = id
                                 THEN NewItem(file[CHOOSE i \in DOMAIN file : ids[i] = id],
                                              s.registry)
                                 ELSE IF id \in DOMAIN s.heap THEN s.heap[id]
                                 ELSE Discarded],
                             !.m_registryKeys = ids]
         IN  persistDefinitions(Emit(s1, Ev("reload", 0, "", "", "", TRUE, "", Len(file))),
                                ids)

\* the reload forgetting the values recorded for the debounce
replaceMonitoredKeysClearDebounce(s, file) ==
    LET base == Len(s.heap)
        newKeys == [i \in DOMAIN file |-> base + i]
        s1 == [s EXCEPT !.heap = @ \o [i \in DOMAIN file |->
                                          NewItem(file[i], s.registry)],
                        !.m_registryKeys = newKeys,
                        !.m_lastAlertedValue = [n \in DOMAIN @ |-> NoValue]]
    IN  persistDefinitions(Emit(s1, Ev("reload", 0, "", "", "", TRUE, "", Len(file))),
                           newKeys)

\* lines 136-149: the new list takes the place of the old one, then the
\* definitions of its items are persisted
replaceMonitoredKeys(s, file) ==
    LET base == Len(s.heap)
        newKeys == [i \in DOMAIN file |-> base + i]
        s1 == [s EXCEPT !.heap = @ \o [i \in DOMAIN file |->
                                          NewItem(file[i], s.registry)],
                        !.m_registryKeys = newKeys]
    IN  persistDefinitions(Emit(s1, Ev("reload", 0, "", "", "", TRUE, "", Len(file))),
                           newKeys)

\* the reload emptying the list when the parser returns nothing
reloadMonitoredKeysClearOnEmpty(s, file) ==
    IF file = << >>
    THEN Emit([s EXCEPT !.m_registryKeys = << >>],
              Ev("reloadAborted", 0, "", "", "", TRUE, "", Len(s.m_registryKeys)))
    ELSE replaceMonitoredKeys(s, file)

\* the two early returns (file missing, parser returned nothing) are recorded:
\* n = number of items that stay monitored
reloadMonitoredKeys(s, file) ==
    IF file = << >>
    THEN Emit(s, Ev("reloadAborted", 0, "", "", "", TRUE, "", Len(s.m_registryKeys)))
    ELSE replaceMonitoredKeys(s, file)

----------------------------------------------------------------------------
(* Actions: one per handler, plus the environment *)

\* the call itself is recorded: flag = m_monitoringActive when it was made
startMonitoring(s) ==
    LET s0 == Emit(s, Ev("startMonitoring", 0, "", "", "", s.m_monitoringActive, "", 0))
    IN  IF ~s0.m_monitoringActive
        THEN Emit([s0 EXCEPT !.m_monitoringActive = TRUE, !.timerActive = TRUE],
                  Ev("statusChanged", 0, "", "", "Monitoring started", TRUE, "", 0))
        ELSE s0

\* stopMonitoring leaving the poll timer running
stopMonitoringKeepTimer(s) ==
    LET s0 == Emit(s, Ev("stopMonitoring", 0, "", "", "", s.m_monitoringActive, "", 0))
    IN  IF s0.m_monitoringActive
        THEN Emit([s0 EXCEPT !.m_monitoringActive = FALSE],
                  Ev("statusChanged", 0, "", "", "Monitoring stopped", TRUE, "", 0))
        ELSE s0

stopMonitoring(s) ==
    LET s0 == Emit(s, Ev("stopMonitoring", 0, "", "", "", s.m_monitoringActive, "", 0))
    IN  IF s0.m_monitoringActive
        THEN Emit([s0 EXCEPT !.m_monitoringActive = FALSE, !.timerActive = FALSE],
                  Ev("statusChanged", 0, "", "", "Monitoring stopped", TRUE, "", 0))
        ELSE s0

StartMonitoring ==
    /\ Commit(startMonitoring(Cur))

StopMonitoring ==
    /\ Commit(stopMonitoring(Cur))

CheckForChanges ==
    /\ timerActive
    /\ \E net \in SUBSET Channels : Commit(checkForChanges(Cur, m_registryKeys, net))

DelayedAlert ==
    /\ timers # << >>
    /\ \E net \in SUBSET Channels : Commit(delayedAlert(Cur, net))

AllowChange ==
    \E keyName \in Names \cup Paths :
        /\ Commit(allowChange(Cur, keyName))

SetKeyCriticalStatus ==
    \E keyName \in Names, b \in BOOLEAN :
        /\ Commit(setKeyCriticalStatus(Cur, keyName, b))

\* another process rewrites the configuration file; the file watcher reloads it
onMonitoredFileChanged(s, file) ==
    reloadMonitoredKeys([s EXCEPT !.extChanges = @ + 1], file)

OnMonitoredFileChanged ==
    /\ extChanges < MaxExtChanges
    /\ \E file \in ConfigFiles : Commit(onMonitoredFileChanged(Cur, file))

OnMonitoredFileChangedD ==
    /\ extChanges < MaxDebounceChanges
    /\ \E file \in ConfigFiles : Commit(onMonitoredFileChanged(Cur, file))

SetNotificationFrequency ==
    \E f \in Frequencies :
        /\ f # m_notificationFrequency
        /\ Commit([Cur EXCEPT !.m_notificationFrequency = f])

SetNonCriticalAlertThreshold ==
    \E th \in Thresholds :
        /\ th # m_nonCriticalAlertThreshold
        /\ Commit([Cur EXCEPT !.m_nonCriticalAlertThreshold = th])

\* another process writes the monitored value (or removes it: NoValue)
externalWrite(s, n, v) == [s EXCEPT !.registry[n] = v, !.extChanges = @ + 1]

ExternalChange ==
    /\ extChanges < MaxExtChanges
    /\ \E n \in Names : \E v \in Values \ {registry[n]} :
          Commit(externalWrite(Cur, n, v))

ExternalChangeD ==
    /\ extChanges < MaxDebounceChanges
    /\ \E n \in Names : \E v \in Values \ {registry[n]} :
          Commit(externalWrite(Cur, n, v))

\* another process writes a value (never removes it)
ExternalWrite ==
    /\ extChanges < MaxDivergences
    /\ \E n \in Names : \E v \in Values \ {NoValue, registry[n]} :
          Commit(externalWrite(Cur, n, v))

\* the access rights of the external resource change: the writes of the
\* program stop or start taking effect
SetWritable ==
    \E b \in BOOLEAN :
        /\ b # writable
        /\ Commit([Cur EXCEPT !.writable = b])

\* the constructor of Database loads the key file whatever its date
Database(s) == loadEncryptionKeys(s)

\* Settings::saveSettings with the contact fields the object holds
saveSettings(s, m_email, m_phoneNumber) ==
    insertOrUpdateUserSettings(Database(s), m_email, m_phoneNumber,
                               toInt(s.m_nonCriticalAlertThreshold),
                               s.m_notificationFrequency)

\* the button "Save Settings": the four fields are copied to Settings, then saved
onSaveClicked(s, frequency, email, phone, threshold) ==
    saveSettings([s EXCEPT !.m_notificationFrequency = frequency,
                           !.m_nonCriticalAlertThreshold = threshold],
                 email, phone)

EmailTexts == {""} \cup ValidEmails \cup {"admin@"}
PhoneTexts == {"", "+15551234567", "555"}

SaveSettings ==
    \E frequency \in Frequencies, email \in EmailTexts, phone \in PhoneTexts,
       threshold \in Thresholds :
        /\ Commit(onSaveClicked(Cur, frequency, email, phone, threshold))

\* what another process can leave in the key file: a valid pair, a key that is
\* not 32 bytes, an IV that is not 16 bytes, a document without "key"
KeyFileContents ==
    { [key |-> "K1", iv |-> "IV1"], [key |-> "K2", iv |-> "IV2"],
      [key |-> "K16", iv |-> "IV3"], [key |-> "K3", iv |-> "IV8"],
      [key |-> None, iv |-> "IV2"] }

\* another process rewrites the key file, or removes it (a file that cannot be
\* opened is handled as one that does not exist)
WriteKeyFile ==
    /\ keyFile.mtime <= MaxKeyWrites
    /\ \/ \E c \in KeyFileContents :
             /\ c # [key |-> keyFile.key, iv |-> keyFile.iv]
             /\ Commit([Cur EXCEPT !.keyFile = [exists |-> TRUE, key |-> c.key,
                                                iv |-> c.iv, mtime |-> @.mtime + 1]])
       \/ /\ keyFile.exists
          /\ Commit([Cur EXCEPT !.keyFile = [exists |-> FALSE, key |-> None,
                                             iv |-> None, mtime |-> @.mtime + 1]])

\* the button "Save Settings" pressed for the administrator's contact
SaveContact ==
    \E frequency \in Frequencies, phone \in {"", "+15551234567"},
       threshold \in Thresholds :
        /\ Commit(onSaveClicked(Cur, frequency, "admin@example.com", phone, threshold))

\* a caller of the dispatcher: one call of Alert::sendAlert
SendAlert ==
    \E net \in SUBSET Channels :
        /\ Commit(sendAlert(Cur, "direct", "", "", net))

AdvanceTime ==
    /\ now < MaxClock * TimeStep
    /\ Commit([Cur EXCEPT !.now = @ + TimeStep])

----------------------------------------------------------------------------
(* The monitoring program after construction *)

InitRegistry == [n \in Names |-> "500"]

\* rows of UserSettings written under the initial key pair
storedContact(email, phone) ==
    [user_email |-> contactColumn(InitKeys, email),
     phone_number |-> contactColumn(InitKeys, phone),
     non_critical_threshold |-> 0, notification_frequency |-> "Never"]

Contact == storedContact("admin@example.com", "+15551234567")
EmailOnly == storedContact("admin@example.com", "")
NoContact == storedContact("", "")

\* the items as constructed from the configuration file, with the given criticality
InitItems(critical) ==
    /\ registry = InitRegistry
    /\ m_registryKeys = [i \in DOMAIN ConfigFile |-> i]
    /\ heap = [i \in DOMAIN ConfigFile |->
                  [NewItem(ConfigFile[i], InitRegistry) EXCEPT !.isCritical = critical]]
    /\ ConfigurationSettings =
          [n \in Names |->
              LET i == CHOOSE j \in DOMAIN ConfigFile : ConfigFile[j].name = n
              IN  [present |-> TRUE, config_path |-> ConfigFile[i].path,
                   config_value |-> InitRegistry[n], is_critical |-> critical]]

InitCommon ==
    /\ platform \in {"win", "mac"}
    /\ m_monitoringActive = FALSE
    /\ timerActive = FALSE
    /\ m_lastAlertedValue = [n \in Names |-> NoValue]
    /\ Changes = << >>
    /\ m_alertTimestamps = << >>
    /\ timers = << >>
    /\ now = 0
    /\ trail = << >>
    /\ sentTimes = << >>
    /\ alerted = [n \in Names |-> None]
    /\ extChanges = 0
    /\ accepted = [n \in Names |-> None]
    /\ writable = TRUE
    /\ keyFile = InitKeyFile
    /\ EncryptionUtils = InitKeys.EncryptionUtils

Init ==
    /\ InitCommon
    /\ InitItems(TRUE)
    /\ UserSettings = << Contact >>
    /\ awsClients = TRUE
    /\ m_notificationFrequency = "Never"
    /\ m_nonCriticalAlertThreshold = ""

Next ==
    \/ StartMonitoring
    \/ StopMonitoring
    \/ CheckForChanges
    \/ DelayedAlert
    \/ AllowChange
    \/ SetKeyCriticalStatus
    \/ OnMonitoredFileChanged
    \/ SetNotificationFrequency
    \/ SetNonCriticalAlertThreshold
    \/ ExternalChange

Spec == Init /\ [][Next]_vars

(* The program after the user saved one alert per hour and a threshold of one
   change: the settings stay as saved, the items are handled as in Spec *)

InitDebounce ==
    /\ InitCommon
    /\ InitItems(TRUE)
    /\ UserSettings = << Contact >>
    /\ awsClients = TRUE
    /\ m_notificationFrequency = "1"
    /\ m_nonCriticalAlertThreshold = "1"

NextDebounce ==
    \/ StartMonitoring
    \/ CheckForChanges
    \/ DelayedAlert
    \/ AllowChange
    \/ SetKeyCriticalStatus
    \/ OnMonitoredFileChangedD
    \/ ExternalChangeD

SpecDebounce == InitDebounce /\ [][NextDebounce]_vars

(* The program monitoring a non-critical item under saved settings, with
   another process writing values to it *)

InitThreshold ==
    /\ InitCommon
    /\ InitItems(FALSE)
    /\ UserSettings = << Contact >>
    /\ awsClients = TRUE
    /\ m_notificationFrequency \in {"Never", "2"}
    /\ m_nonCriticalAlertThreshold \in {"2", "3"}

NextThreshold ==
    \/ StartMonitoring
    \/ CheckForChanges
    \/ ExternalWrite

SpecThreshold == InitThreshold /\ [][NextThreshold]_vars

(* The alert dispatcher alone: calls of sendAlert while the clock advances *)

InitAlert ==
    /\ InitCommon
    /\ InitItems(TRUE)
    /\ UserSettings \in {<< >>, << NoContact >>, << Contact >>, << EmailOnly >>}
    /\ awsClients \in BOOLEAN
    /\ m_notificationFrequency \in {"1", "2"}
    /\ m_nonCriticalAlertThreshold = ""

NextAlert ==
    \/ SendAlert
    \/ AdvanceTime

SpecAlert == InitAlert /\ [][NextAlert]_vars

(* The program monitoring a critical item that the user never exempts, under
   one alert per hour, while other processes write the value and the access
   rights of the external resource change *)

InitRestore ==
    /\ InitCommon
    /\ InitItems(TRUE)
    /\ UserSettings = << Contact >>
    /\ awsClients = TRUE
    /\ m_notificationFrequency = "1"
    /\ m_nonCriticalAlertThreshold = ""

NextRestore ==
    \/ StartMonitoring
    \/ CheckForChanges
    \/ DelayedAlert
    \/ ExternalWrite
    \/ SetWritable

SpecRestore == InitRestore /\ [][NextRestore]_vars

\* DelayedAlert seen on the queue of pending callbacks: the oldest one is called
DelayedAlertFires == timers # << >> /\ timers' = Tail(timers)

\* the same program with the event loop running: a pending singleShot callback
\* is called once its delay has passed
SpecDelayed == InitRestore /\ [][NextRestore]_vars /\ WF_timers(DelayedAlertFires)

(* The program monitoring a critical item under one alert per hour while
   another process writes the value and rewrites the configuration file *)

InitReload ==
    /\ InitCommon
    /\ InitItems(TRUE)
    /\ UserSettings = << Contact >>
    /\ awsClients = TRUE
    /\ m_notificationFrequency = "1"
    /\ m_nonCriticalAlertThreshold = ""

NextReload ==
    \/ StartMonitoring
    \/ CheckForChanges
    \/ DelayedAlert
    \/ ExternalWrite
    \/ OnMonitoredFileChangedD

SpecReload == InitReload /\ [][NextReload]_vars

(* The program after the user saved one alert per hour and a threshold of two
   changes, monitoring an item that starts non-critical: the user switches its
   criticality while another process writes it *)

InitCritical ==
    /\ InitCommon
    /\ InitItems(FALSE)
    /\ UserSettings = << Contact >>
    /\ awsClients = TRUE
    /\ m_notificationFrequency = "1"
    /\ m_nonCriticalAlertThreshold = "2"

NextCritical ==
    \/ StartMonitoring
    \/ CheckForChanges
    \/ DelayedAlert
    \/ SetKeyCriticalStatus
    \/ ExternalChangeD

SpecCritical == InitCritical /\ [][NextCritical]_vars

(* The store of user settings alone, empty at first: the user saves settings
   again and again under the key pair the program was built with *)

InitStore ==
    /\ InitCommon
    /\ InitItems(TRUE)
    /\ UserSettings = << >>
    /\ awsClients = TRUE
    /\ m_notificationFrequency = "Never"
    /\ m_nonCriticalAlertThreshold = ""

NextStore ==
    \/ SaveSettings

SpecStore == InitStore /\ [][NextStore]_vars

(* The program while another process rewrites the key file: the user saves the
   administrator's contact and alerts are sent *)

InitKeyReload ==
    /\ InitCommon
    /\ InitItems(TRUE)
    /\ UserSettings = << Contact >>
    /\ awsClients = TRUE
    /\ m_notificationFrequency = "1"
    /\ m_nonCriticalAlertThreshold = ""

NextKeyReload ==
    \/ WriteKeyFile
    \/ SaveContact
    \/ SendAlert

SpecKeyReload == InitKeyReload /\ [][NextKeyReload]_vars

----------------------------------------------------------------------------
(* Reading the trail of the handler that ran last *)

IsDetect(i) == trail[i].type = "detect"

\* detect is followed at once by the item's fields as they were at detection
Before(i) == trail[i + 1]

DebouncedIn(i) ==
    \E j \in DOMAIN trail : trail[j].type = "debounced" /\ trail[j].name = trail[i].name

\* a call of the dispatcher, of any kind
IsSendAlert(j) == trail[j].type = "sendAlert"

\* the alert of a critical divergence is armed: the delayed callback is
\* scheduled (Windows) or the dispatcher is called for it (macOS)
IsArmed(j) ==
    \/ trail[j].type = "singleShot"
    \/ trail[j].type = "sendAlert" /\ trail[j].old = "critical"

IsDelivery(j) == trail[j].type \in {"sendEmailAlert", "sendSmsAlert"}

LastChangeOf(name) ==
    Changes[CHOOSE k \in DOMAIN Changes :
               /\ Changes[k].config_name = name
               /\ \A m \in DOMAIN Changes : Changes[m].config_name = name => m <= k]

InWindow(ts) == SelectSeq(ts, LAMBDA x : x >= now - OneHour)

----------------------------------------------------------------------------
(* C1: when the tick that detected a divergence of a critical item with no
   exemption has finished, the external value equals the value that was
   authoritative (cached) before the divergence. *)
C1_CriticalConverges ==
    \A i \in DOMAIN trail :
        (IsDetect(i) /\ trail[i].flag /\ ~Before(i).flag)
            => registry[trail[i].name] = trail[i].old

(* C2: the delayed alert of a critical divergence is dispatched only if
   allowChange was not called for the item between the detection of the
   divergence and the firing of its timer.  Stated for the timers whose item
   object is still in the monitored list (no reload since the detection). *)
C2_NoDispatchAfterAllow ==
    \A i \in DOMAIN trail :
        (trail[i].type = "timeout" /\ trail[i].flag /\ trail[i].n = 1)
            => \A j \in DOMAIN trail : ~IsSendAlert(j)

(* C3: every non-debounced divergence of a critical item triggers, in the same
   tick and before the alert is armed, a restore that writes the value that
   was authoritative (cached) before the divergence.  Stated for the plainest
   case: no exemption is set, no critical divergence of the item was handled
   before (its pending value is empty), and the cached and the observed value
   are both present. *)
C3_RestoreBeforeAlert ==
    \A i \in DOMAIN trail :
        (IsDetect(i) /\ trail[i].flag /\ ~DebouncedIn(i)
                     /\ ~Before(i).flag /\ Before(i).value = NoValue
                     /\ trail[i].old # NoValue /\ trail[i].value # NoValue)
            => \E j \in DOMAIN trail :
                  /\ trail[j].type = "restore"
                  /\ trail[j].name = trail[i].name
                  /\ trail[j].value = trail[i].old
                  /\ \A k \in DOMAIN trail : IsArmed(k) => j < k

(* C4: the exemption flag is read inside the delayed-alert callback: when
   allowChange was called for the item after the alert was armed and no
   divergence of the item was detected since that call, the callback sends no
   alert. *)
C4_FlagReadInCallback ==
    \A i \in DOMAIN trail :
        (trail[i].type = "timeout" /\ trail[i].flag /\ trail[i].why # "divAfterAllow")
            => \A j \in DOMAIN trail : ~IsSendAlert(j)

(* C5 as stated: for a non-critical item and a threshold T > 0 the dispatcher is
   called in a tick iff the item's changeCount reaches T in that tick. *)
C5_AlertIffCount ==
    \A i \in DOMAIN trail :
        (IsDetect(i) /\ ~trail[i].flag /\ ~DebouncedIn(i)
                     /\ toInt(m_nonCriticalAlertThreshold) > 0)
            => ((\E j \in DOMAIN trail : IsSendAlert(j) /\ trail[j].old = "noncritical")
                    <=> Before(i).n + 1 >= toInt(m_nonCriticalAlertThreshold))

(* C5 amended: for a non-critical item and a threshold T > 0 the dispatcher is
   called in a tick iff the item's changeCount reaches T in that tick and, on
   Windows, the frequency is not "Never"; the counter is 0 after every tick in
   which it reached T and one more than before otherwise; counting the
   divergences from the start, the counter reaches T exactly at the T-th,
   2T-th, ... divergence (with T = 3: the 3rd and the 6th, not the 4th and
   5th). *)
C5_ThresholdAlert ==
    \A i \in DOMAIN trail :
        (IsDetect(i) /\ ~trail[i].flag /\ ~DebouncedIn(i)
                     /\ toInt(m_nonCriticalAlertThreshold) > 0)
            => LET T == toInt(m_nonCriticalAlertThreshold)
                   count == Before(i).n + 1
                   called == \E j \in DOMAIN trail :
                                 IsSendAlert(j) /\ trail[j].old = "noncritical"
               IN  /\ called <=> (count >= T /\ (platform = "mac"
                                                 \/ m_notificationFrequency # "Never"))
                   /\ heap[trail[i].id].changeCount = IF count >= T THEN 0 ELSE count
                   /\ (count >= T) <=> (Len(Changes) % T = 0)

C5_Witness ==
    /\ m_nonCriticalAlertThreshold = "3"
    /\ Len(Changes) = 6
    /\ \E i \in DOMAIN trail : IsDetect(i) /\ ~trail[i].flag
    /\ \E j \in DOMAIN trail : IsSendAlert(j) /\ trail[j].flag

(* C6: once an alert has been triggered for a pair (item, v), a tick that
   observes v for the item triggers no alert (arms no delayed alert, calls no
   dispatcher) as long as no tick has observed another value for the item. *)
C6_Debounce ==
    \A i \in DOMAIN trail :
        (IsDetect(i) /\ trail[i].why = trail[i].value)
            => \A j \in DOMAIN trail :
                  ~(trail[j].type \in {"singleShot", "sendAlert"}
                    /\ trail[j].name = trail[i].name)

C6_Witness ==
    \E i \in DOMAIN trail :
        IsDetect(i) /\ trail[i].why = trail[i].value /\ DebouncedIn(i)

(* C7: a tick that observes a value different from the cached one appends
   exactly one Change Event (old = cached, new = observed, acknowledged =
   false) right after the observation, before the debounce check and the
   critical/non-critical branch, also when the divergence is debounced; the
   debounce check comes next, then the branch, and the handling ends with the
   final write of the cached value. *)
C7_LogBeforeBranch ==
    \A i \in DOMAIN trail :
        IsDetect(i)
            => /\ Len(trail) >= i + 4
               /\ trail[i + 2].type = "insertChange"
               /\ trail[i + 2].name = trail[i].name
               /\ trail[i + 2].old = trail[i].old
               /\ trail[i + 2].value = trail[i].value
               /\ Cardinality({j \in DOMAIN trail :
                                  trail[j].type = "insertChange"
                                  /\ trail[j].name = trail[i].name}) = 1
               /\ trail[i + 3].type \in {"debounced", "lastAlerted"}
               /\ \A k \in DOMAIN trail :
                     trail[k].type \in {"debounced", "lastAlerted", "restore",
                                        "singleShot", "sendAlert", "thresholdReached",
                                        "insertOrUpdateConfiguration", "setValue"}
                         => k > i + 2
               /\ trail[Len(trail)].type = "setValue"
               /\ trail[Len(trail)].value = trail[i].value
               /\ heap[trail[i].id].value = trail[i].value
               /\ decrypt(Cur, fromBase64(LastChangeOf(trail[i].name).old_value))
                      = trail[i].old
               /\ decrypt(Cur, fromBase64(LastChangeOf(trail[i].name).new_value))
                      = trail[i].value
               /\ ~LastChangeOf(trail[i].name).acknowledged

C7_Witness ==
    \E i \in DOMAIN trail :
        /\ IsDetect(i)
        /\ DebouncedIn(i)
        /\ \E j \in DOMAIN trail : trail[j].type = "insertChange"

(* C8: the critical field of the Change Event appended for a divergence equals
   the item's isCritical flag when the divergence was detected. *)
C8_CriticalFieldLogged ==
    \A i \in DOMAIN trail :
        IsDetect(i) => LastChangeOf(trail[i].name).critical = trail[i].flag

(* C9: with a constant frequency N > 0, a dispatch that passes the contact
   checks and whose delivery is accepted is sent iff fewer than N alerts were
   sent during the last hour, and is dropped otherwise; so never more than N
   alerts are sent within one hour, and every sent alert that becomes more
   than one hour old frees capacity for one more. *)
C9_RateLimit ==
    /\ Len(InWindow(sentTimes)) <= toInt(m_notificationFrequency)
    /\ \A i \in DOMAIN trail :
          (IsSendAlert(i) /\ trail[i].why \in {"sent", "ratelimit"})
              => (trail[i].flag <=> trail[i].n < toInt(m_notificationFrequency))

C9_Witness ==
    /\ Len(sentTimes) > toInt(m_notificationFrequency)
    /\ \E i \in DOMAIN trail :
          /\ IsSendAlert(i)
          /\ trail[i].flag
          /\ trail[i].n = toInt(m_notificationFrequency) - 1

(* C10: sendAlert returns true iff at least one delivery to a contact channel
   succeeded; the rate-limit window (the recorded timestamps not older than
   one hour) gains the time of the call iff it returns true and is unchanged
   otherwise, so it always holds exactly the alerts sent during the last
   hour. *)
C10_ReturnAndWindow ==
    /\ InWindow(m_alertTimestamps) = InWindow(sentTimes)
    /\ \A i \in DOMAIN trail :
          IsSendAlert(i)
              => /\ trail[i].flag <=> \E j \in DOMAIN trail : IsDelivery(j) /\ trail[j].flag
                 /\ Len(InWindow(m_alertTimestamps))
                        = trail[i].n + (IF trail[i].flag THEN 1 ELSE 0)
                 /\ trail[i].flag =>
                        m_alertTimestamps[Len(m_alertTimestamps)] = now

C10_Witness ==
    \E i \in DOMAIN trail :
        IsSendAlert(i) /\ trail[i].why = "failed" /\ trail[i].n > 0

(* C11: while the notification frequency is "Never" no handler delivers an
   alert to a contact channel, whichever path asks for it. *)
C11_KillSwitch ==
    m_notificationFrequency = "Never"
        => \A j \in DOMAIN trail : ~(IsDelivery(j) /\ trail[j].flag)

(* a tick detects a non-debounced divergence of a critical item whose
   exemption flag is set and whose republished value is the cached one *)
FreshAfterAllow(i) ==
    /\ IsDetect(i) /\ trail[i].flag /\ ~DebouncedIn(i)
    /\ Before(i).flag
    /\ Before(i).old = trail[i].old

\* that divergence is handled as an unauthorized change: the flag is cleared,
\* the cached value is written back, then the alert is armed
HandledAsFresh(i) ==
    /\ ~heap[trail[i].id].rollbackCancelled
    /\ \E k \in DOMAIN trail : IsArmed(k) /\ trail[k].name = trail[i].name
    /\ \E j \in DOMAIN trail :
          /\ trail[j].type = "restore"
          /\ trail[j].name = trail[i].name
          /\ trail[j].value = trail[i].old
          /\ \A k \in DOMAIN trail : IsArmed(k) => j < k

\* the timer of a divergence detected with the flag set fires, the item is
\* still monitored and allowChange was not called since the detection
FiresUnexempted(i) ==
    /\ trail[i].type = "timeout"
    /\ trail[i].old = "afterAllow"
    /\ ~trail[i].flag
    /\ trail[i].n = 1

(* C12 as stated: a divergence of a critical item detected after allowChange is
   rolled back again, and its alert is dispatched when its timer fires unless
   allowChange was called again. *)
C12_FreshAfterAllow ==
    \A i \in DOMAIN trail :
        /\ FreshAfterAllow(i) => HandledAsFresh(i)
        /\ FiresUnexempted(i) => \E j \in DOMAIN trail : IsSendAlert(j)

(* C12 amended: a non-debounced divergence of a critical item detected after
   allowChange clears the exemption flag, is rolled back again and arms its
   alert; when its timer fires and allowChange was not called again, the
   dispatcher is called iff the notification frequency is not "Never". *)
C12_ExactlyOnce ==
    \A i \in DOMAIN trail :
        /\ FreshAfterAllow(i) => HandledAsFresh(i)
        /\ FiresUnexempted(i) =>
              ((\E j \in DOMAIN trail : IsSendAlert(j))
                   <=> m_notificationFrequency # "Never")

C12_Witness ==
    \E i \in DOMAIN trail :
        /\ FiresUnexempted(i)
        /\ \E j \in DOMAIN trail : IsSendAlert(j) /\ trail[j].flag

(* C13: one allowChange call suppresses the delayed alert of at most one
   divergence of the item: when a timer of the item that got exactly one call
   since it was armed has been suppressed, a younger timer of the item that
   got only the same call is not suppressed by the exemption. *)
C13_OneCallOneDivergence ==
    \A i \in DOMAIN trail :
        (trail[i].type = "timerHistory" /\ trail[i].n = 1 /\ trail[i].flag)
            => \A j \in DOMAIN trail : trail[j].type # "acknowledgedBeforeDelay"

(* C14: when allowChange was called for a critical item while no divergence of
   it was pending, the next divergence detected on the item is accepted: no
   restore write, no alert armed, and the exemption flag is clear afterwards.
   Stated for the first divergence ever logged for the item, so that no
   divergence can have been pending when allowChange was called. *)
C14_AcceptAfterIdleAllow ==
    \A i \in DOMAIN trail :
        (IsDetect(i) /\ trail[i].flag /\ ~DebouncedIn(i) /\ Before(i).flag
                     /\ Cardinality({k \in DOMAIN Changes :
                                        Changes[k].config_name = trail[i].name}) = 1)
            => /\ \A j \in DOMAIN trail :
                     trail[j].name = trail[i].name
                         => trail[j].type # "restore" /\ ~IsArmed(j)
               /\ ~heap[trail[i].id].rollbackCancelled

(* C15: a call of allowChange made while the item has an unacknowledged Change
   Event marks the most recent unacknowledged Change Event of the item as
   acknowledged.  Stated for the case the claim singles out: earlier Change
   Events of the item were acknowledged by previous calls; and for calls that
   name the item by its value name, the name its Change Events carry. *)
C15_AckMostRecent ==
    \A i \in DOMAIN trail :
        (trail[i].type = "allowChange" /\ trail[i].n > 0 /\ trail[i].flag
                                      /\ trail[i].name \in Names)
            => Changes[trail[i].n].acknowledged

(* C16: after allowChange for an item whose pending value v is the value of
   its latest divergence (its cached value), previousValue of the item is v,
   the cached value is still v and the exemption flag is set; and while the
   external value has been v ever since, no tick detects a divergence of the
   item, so none logs a Change Event, attempts a rollback or arms an alert
   for it. *)
C16_Republished ==
    \A i \in DOMAIN trail :
        /\ (trail[i].type = "allowChange" /\ trail[i].id # 0)
               => /\ heap[trail[i].id].previousValue = trail[i].old
                  /\ heap[trail[i].id].rollbackCancelled
                  /\ trail[i].old = trail[i].value
                         => heap[trail[i].id].value = trail[i].old
        /\ IsDetect(i) => Before(i).why = None

C16_Witness ==
    /\ timers # << >>
    /\ \E i \in DOMAIN trail :
          /\ trail[i].type = "allowChange" /\ trail[i].id # 0
          /\ trail[i].old = trail[i].value /\ trail[i].old # NoValue
          /\ accepted[heap[trail[i].id].name] = trail[i].old
          /\ timers[Len(timers)].id = trail[i].id
          /\ timers[Len(timers)].value = trail[i].old

\* the delayed alerts of the item that are pending and for which allowChange was
\* not called since their divergence was detected: each stands for one Change
\* Event logged for a divergence of a critical item and not acknowledged since
UnacknowledgedPending(n) ==
    {k \in DOMAIN timers : timers[k].name = n /\ ~timers[k].allowed}

(* C17: for each item at most one unacknowledged Change Event of a critical
   divergence exists while a delayed alert of the item is pending.  A Change
   Event counts as critical when the item was critical at the detection. *)
C17_OneUnacknowledgedCritical ==
    \A n \in Names :
        Cardinality(UnacknowledgedPending(n)) >= 2
            => Cardinality({k \in DOMAIN Changes :
                               Changes[k].config_name = n /\ ~Changes[k].acknowledged}) < 2

(* C18: the Change Event log is append-only: a step removes and reorders no
   event, and changes no field of an existing event except acknowledged,
   which only goes from false to true and only in a handler that runs the
   acknowledgment operation. *)
C18_AppendOnly ==
    [][ /\ Len(Changes') >= Len(Changes)
        /\ \A k \in DOMAIN Changes :
              \/ Changes'[k] = Changes[k]
              \/ /\ ~Changes[k].acknowledged
                 /\ Changes'[k] = [Changes[k] EXCEPT !.acknowledged = TRUE]
                 /\ \E j \in DOMAIN trail' :
                       trail'[j].type = "updateAcknowledgmentStatus" ]_vars

C18_Witness ==
    /\ Len(Changes) >= 2
    /\ Changes[1].acknowledged
    /\ ~Changes[2].acknowledged
    /\ \E j \in DOMAIN trail : trail[j].type = "insertChange"

\* everything a start or stop call must leave alone
ItemsAndStores ==
    << platform, m_registryKeys, heap, registry, m_lastAlertedValue, Changes,
       ConfigurationSettings, UserSettings, awsClients, m_alertTimestamps,
       m_notificationFrequency, m_nonCriticalAlertThreshold, timers, now >>

(* C19: the loop is Stopped or Running; startMonitoring leaves it Running with
   the poll timer started, stopMonitoring leaves it Stopped with the poll
   timer stopped, a start while Running and a stop while Stopped change
   nothing; in every state the poll timer is active iff the loop is Running,
   and a tick runs only while it is Running. *)
C19_TwoStates ==
    /\ [](timerActive <=> m_monitoringActive)
    /\ [][ \A i \in DOMAIN trail' :
              /\ trail'[i].type = "startMonitoring"
                    => /\ m_monitoringActive' /\ timerActive'
                       /\ trail'[i].flag = m_monitoringActive
                       /\ UNCHANGED ItemsAndStores
                       /\ m_monitoringActive =>
                             \A j \in DOMAIN trail' : trail'[j].type # "statusChanged"
              /\ trail'[i].type = "stopMonitoring"
                    => /\ ~m_monitoringActive' /\ ~timerActive'
                       /\ trail'[i].flag = m_monitoringActive
                       /\ UNCHANGED ItemsAndStores
                       /\ ~m_monitoringActive =>
                             \A j \in DOMAIN trail' : trail'[j].type # "statusChanged"
              /\ IsDetect(i)' => m_monitoringActive /\ timerActive ]_vars

C19_Witness ==
    /\ ~m_monitoringActive
    /\ ~timerActive
    /\ Changes # << >>
    /\ \E i \in DOMAIN trail : trail[i].type = "stopMonitoring" /\ trail[i].flag

(* C20: a delayed alert that fires, while the loop is Running or after it was
   Stopped, is suppressed iff the exemption flag of its item object is set
   and calls the dispatcher iff the flag is clear and the frequency is not
   "Never": the outcome does not depend on the state of the loop. *)
C20_FiresAfterStop ==
    \A i \in DOMAIN trail :
        trail[i].type = "timerHistory"
            => /\ (\E j \in DOMAIN trail : trail[j].type = "acknowledgedBeforeDelay")
                      <=> trail[i].why = "exempt"
               /\ (\E j \in DOMAIN trail : IsSendAlert(j))
                      <=> (trail[i].why # "exempt" /\ m_notificationFrequency # "Never")
               /\ (trail[i].old = "running") <=> m_monitoringActive

C20_Witness ==
    /\ ~m_monitoringActive
    /\ ~timerActive
    /\ \E i \in DOMAIN trail : trail[i].type = "timeout"
    /\ \E j \in DOMAIN trail : IsSendAlert(j) /\ trail[j].flag

\* everything but the items, the loop state and the configuration snapshot
OutsideTheItems ==
    << platform, registry, m_lastAlertedValue, Changes, UserSettings, awsClients,
       m_alertTimestamps, m_notificationFrequency, m_nonCriticalAlertThreshold,
       timers, now, writable >>

(* C21: a reload that takes effect, in either state of the loop, replaces the
   whole item list in one handler: every item of the new list is a fresh
   object, no object that existed before is modified (the objects pending
   callbacks refer to keep all their fields), no tick runs inside the reload,
   and the Running/Stopped state and the poll timer are as before. *)
C21_ReloadReplaces ==
    [][ \A i \in DOMAIN trail' :
           trail'[i].type = "reload"
               => /\ m_monitoringActive' = m_monitoringActive
                  /\ timerActive' = timerActive
                  /\ Len(m_registryKeys') = trail'[i].n
                  /\ \A k \in DOMAIN m_registryKeys' :
                        m_registryKeys'[k] \notin DOMAIN heap
                  /\ \A id \in DOMAIN heap : heap'[id] \in {heap[id], Discarded}
                  /\ \A k \in DOMAIN timers : heap'[timers[k].id] = heap[timers[k].id]
                  /\ \A j \in DOMAIN trail' : trail'[j].type # "detect"
                  /\ UNCHANGED OutsideTheItems ]_vars

C21_Witness ==
    /\ m_monitoringActive
    /\ timerActive
    /\ timers # << >>
    /\ \E i \in DOMAIN trail : trail[i].type = "reload" /\ trail[i].n > 0
    /\ \A k \in DOMAIN m_registryKeys : m_registryKeys[k] # timers[1].id
    /\ heap[timers[1].id].name = timers[1].name

(* C22: a reload whose input is invalid (file missing, not a JSON array, no
   valid entry: the parser returns nothing) is aborted: the item list, every
   field of every item, the Running/Stopped state, the poll timer and the
   stores are exactly as before the call. *)
C22_AbortKeepsAll ==
    [][ \A i \in DOMAIN trail' :
           trail'[i].type = "reloadAborted"
               => /\ UNCHANGED << m_registryKeys, heap, m_monitoringActive, timerActive,
                                  ConfigurationSettings >>
                  /\ UNCHANGED OutsideTheItems
                  /\ trail'[i].n = Len(m_registryKeys') ]_vars

C22_Witness ==
    /\ m_monitoringActive
    /\ timers # << >>
    /\ m_registryKeys # << >>
    /\ heap[m_registryKeys[1]].rollbackCancelled
    /\ \E i \in DOMAIN trail : trail[i].type = "reloadAborted"

(* C23: a delayed-alert callback whose item object was discarded by a reload
   before the timer fired does nothing: it does not call the dispatcher,
   whatever the flags of the discarded object or of the new object of the
   same name. *)
C23_DiscardedNoOp ==
    \A i \in DOMAIN trail :
        (trail[i].type = "timeout" /\ trail[i].n = 0)
            => \A j \in DOMAIN trail : ~IsSendAlert(j) /\ ~IsDelivery(j)

(* C24: a tick that finds the backing resource of an item missing (the read
   returns the empty value) treats the read as unchanged: it appends no Change
   Event, restores nothing, arms no alert, writes nothing to the external
   resource, and the item's cached value, previousValue and changeCount are
   as before the tick. *)
C24_MissingIsUnchanged ==
    \A i \in DOMAIN trail :
        (IsDetect(i) /\ trail[i].value = NoValue)
            => /\ \A j \in DOMAIN trail :
                     trail[j].name = trail[i].name
                         => /\ trail[j].type \notin {"insertChange", "restore"}
                            /\ ~IsArmed(j)
                            /\ ~(trail[j].type = "setValue" /\ trail[j].flag)
               /\ heap[trail[i].id].value = trail[i].old
               /\ heap[trail[i].id].previousValue = Before(i).old
               /\ heap[trail[i].id].changeCount = Before(i).n

\* the restore write of this tick for the item of detect i did not take effect
RestoreFailed(i) ==
    \E j \in DOMAIN trail :
        trail[j].type = "restore" /\ trail[j].name = trail[i].name /\ ~trail[j].flag

(* C25: when the restore write of a rollback does not take effect, the tick
   does not advance the item's cached value to the diverging value: at the
   end of the tick the cache still holds the value from before the
   divergence and differs from the external value, so the next tick detects
   the same divergence and attempts the restore again. *)
C25_RetryAfterFailedRestore ==
    \A i \in DOMAIN trail :
        (IsDetect(i) /\ trail[i].flag /\ RestoreFailed(i))
            => /\ heap[trail[i].id].value = trail[i].old
               /\ heap[trail[i].id].value # registry[trail[i].name]

(* C26: at the end of every tick, for every item for which the tick detected
   a divergence (debounced, critical, threshold reached or below threshold),
   the value of the item in the persisted configuration snapshot equals the
   item's cached value.  Stated for the ticks that read a value that is
   present. *)
C26_SnapshotEqualsCache ==
    \A i \in DOMAIN trail :
        (IsDetect(i) /\ trail[i].value # NoValue)
            => /\ ConfigurationSettings[trail[i].name].present
               /\ ConfigurationSettings[trail[i].name].config_value
                      = heap[trail[i].id].value

\* the value the item had when it was loaded: the only value that is ever
\* authorized while the item stays critical and the user exempts nothing
Authorized(n) == InitRegistry[n]

(* C27: the rollback baseline is always an authorized value.  For an item that
   is critical from the start and that the user never exempts, no diverging
   value is ever accepted as authoritative, so previousValue stays the value
   the item was loaded with and every restore writes that value. *)
C27_AuthorizedBaseline ==
    /\ \A k \in DOMAIN m_registryKeys :
          heap[m_registryKeys[k]].previousValue
              = Authorized(heap[m_registryKeys[k]].name)
    /\ \A i \in DOMAIN trail :
          trail[i].type = "restore" => trail[i].value = Authorized(trail[i].name)

----------------------------------------------------------------------------
(* Encryption of the sensitive fields *)

\* texts a sensitive field can hold
SensitiveTexts == Values \cup EmailTexts \cup PhoneTexts

\* decrypt undoes encrypt under the key pair that is loaded
RoundTrip ==
    \A t \in SensitiveTexts : decrypt(Cur, encrypt(Cur, t)) = t

\* a contact that a save stored is read back by getAllUserSettings as it was
\* given (a save without an email leaves the email of the row it updates)
ContactsReadBack ==
    \A k \in DOMAIN trail :
        (/\ trail[k].type = "insertOrUpdateUserSettings"
         /\ trail[k].why \in {"inserted", "updated"})
            => \E i \in DOMAIN UserSettings :
                  /\ \/ getAllUserSettings(Cur)[i].email = trail[k].name
                     \/ trail[k].why = "updated" /\ trail[k].name = ""
                  /\ getAllUserSettings(Cur)[i].phone = trail[k].old

\* the old and the new value of a logged change are read back by getAllChanges as
\* they were given
ChangesReadBack ==
    \A k \in DOMAIN trail :
        trail[k].type = "insertChange"
            => \E i \in DOMAIN Changes :
                  /\ getAllChanges(Cur)[i].config_name = trail[k].name
                  /\ getAllChanges(Cur)[i].old_value = trail[k].old
                  /\ getAllChanges(Cur)[i].new_value = trail[k].value

\* C28: under a constant key and IV, decrypt(encrypt(s)) = s for every string s,
\* and every sensitive field written through the store (the email and the phone
\* of a contact, the old and the new value of a change) is returned as the
\* original plaintext by the read of its table.
C28_RoundTripAndReadBack ==
    /\ RoundTrip
    /\ ContactsReadBack
    /\ ChangesReadBack

----------------------------------------------------------------------------
(* The table of user settings *)

\* no two records share an email, no two records share a phone
UniqueContacts ==
    \A i, j \in DOMAIN UserSettings :
        i # j => /\ \/ getAllUserSettings(Cur)[i].email = ""
                    \/ getAllUserSettings(Cur)[i].email # getAllUserSettings(Cur)[j].email
                 /\ \/ getAllUserSettings(Cur)[i].phone = ""
                    \/ getAllUserSettings(Cur)[i].phone # getAllUserSettings(Cur)[j].phone

\* the record of the contact a write was made for: the one with the email of
\* the write, or with its phone when the write has no email
IsRecordOf(i, email, phone) ==
    IF email # ""
    THEN getAllUserSettings(Cur)[i].email = email
    ELSE getAllUserSettings(Cur)[i].phone = phone

\* after a write that the store reported as done, the record of the contact
\* holds the threshold and the frequency of the write
LastWriteWins ==
    \A k \in DOMAIN trail :
        (trail[k].type = "insertOrUpdateUserSettings" /\ trail[k].flag)
            => \E i \in DOMAIN UserSettings :
                  /\ IsRecordOf(i, trail[k].name, trail[k].old)
                  /\ UserSettings[i].non_critical_threshold = trail[k].n
                  /\ UserSettings[i].notification_frequency = trail[k].value

(* C30: after any sequence of upserts of user settings, no two stored records
   share the same email or the same phone, and the record of a contact holds
   the threshold and the frequency of the last write made for that contact. *)
C30_UniqueLastWriteWins ==
    /\ UniqueContacts
    /\ LastWriteWins

----------------------------------------------------------------------------
(* Reload of the key material *)

\* the file holds key material that passes the validation of the load
ValidKeyFile(f) ==
    /\ f.exists
    /\ f.key # None /\ f.iv # None
    /\ KeySize(f.key) = 32
    /\ KeySize(f.iv) = 16

\* the key and the IV in memory were in the key file together
LoadedTogether ==
    \E c \in KeyFileContents \cup {[key |-> InitKeyFile.key, iv |-> InitKeyFile.iv]} :
        /\ KeySize(c.key) = 32 /\ KeySize(c.iv) = 16
        /\ EncryptionUtils.encryptionKey = c.key
        /\ EncryptionUtils.encryptionIv = c.iv

\* the email column of the records that the step inserted is the ciphertext
\* under the key pair that was in memory before the step
InsertedUnderPreviousPair ==
    \A k \in DOMAIN trail' :
        (trail'[k].type = "insertUserSettings" /\ trail'[k].flag)
            => UserSettings'[Len(UserSettings')].user_email
                  = toBase64(toBase64(aes256cbc(EncryptionUtils.encryptionKey,
                                                EncryptionUtils.encryptionIv,
                                                toUtf8(trail'[k].name))))

(* C29: a load of key material that fails validation (key not 32 bytes, IV not
   16 bytes, missing field, unreadable file) leaves the key and the IV in
   memory exactly as they were: the encryption of the same handler uses the
   previous pair, and the key and the IV in memory always come from one load. *)
C29_InvalidKeepsPrevious ==
    [][/\ LoadedTogether'
       /\ (~ValidKeyFile(keyFile) /\ keyFile' = keyFile)
             => /\ EncryptionUtils' = EncryptionUtils
                /\ InsertedUnderPreviousPair]_vars

\* a save under a key file that fails validation, written after the pair
\* K2/IV2 was loaded from an earlier one
C29_Witness ==
    /\ ~ValidKeyFile(keyFile)
    /\ keyFile.mtime > EncryptionUtils.lastKeyFileModified
    /\ EncryptionUtils.encryptionKey = "K2"
    /\ \E k \in DOMAIN trail :
          trail[k].type = "insertUserSettings" /\ trail[k].flag

----------------------------------------------------------------------------
(* Criticality and the non-critical counter *)

(* C31: rollback never applies to non-critical items.  In a tick that detects
   a divergence of an item whose isCritical flag is false, no restore write
   of previousValue is made, no rollback-performed event is emitted and no
   delayed alert is armed for the item. *)
C31_NoRollbackOfNonCritical ==
    \A i \in DOMAIN trail :
        (IsDetect(i) /\ ~trail[i].flag)
            => \A j \in DOMAIN trail :
                  trail[j].name = trail[i].name
                      => /\ trail[j].type \notin {"restore", "criticalChangeDetected"}
                         /\ ~IsArmed(j)

\* a tick handled a divergence of a non-critical item past the debounce check
\* while the external resource differed from previousValue
C31_Witness ==
    \E i \in DOMAIN trail :
        /\ IsDetect(i) /\ ~trail[i].flag
        /\ ~DebouncedIn(i)
        /\ trail[i].value # Before(i).old

\* the tick the step took, as it runs under another threshold
TickUnder(th, net) ==
    checkForChanges([Cur EXCEPT !.m_nonCriticalAlertThreshold = th], m_registryKeys, net)

\* texts of the threshold field, including ones that a count of 1 or 2 reaches
ThresholdTexts == Thresholds \cup {"1", "3"}

\* the step is a tick that detected a divergence of a critical item
CriticalTick ==
    \E i \in DOMAIN trail' : trail'[i].type = "detect" /\ trail'[i].flag

\* whatever the threshold, the tick has the same effects, in the same order,
\* and leaves the same items, external values, pending alerts and tables
SameUnderAnyThreshold ==
    \A th \in ThresholdTexts :
        \E net \in SUBSET Channels :
            /\ TickUnder(th, net).trail = trail'
            /\ \A k \in DOMAIN m_registryKeys :
                  TickUnder(th, net).heap[m_registryKeys[k]] = heap'[m_registryKeys[k]]
            /\ TickUnder(th, net).registry = registry'
            /\ TickUnder(th, net).timers = timers'
            /\ TickUnder(th, net).Changes = Changes'
            /\ TickUnder(th, net).ConfigurationSettings = ConfigurationSettings'
            /\ TickUnder(th, net).m_lastAlertedValue = m_lastAlertedValue'
            /\ TickUnder(th, net).m_alertTimestamps = m_alertTimestamps'

(* C32: the critical path never reads or writes the non-critical counter.  A
   tick that handles a divergence of a critical item leaves changeCount as it
   was and has the same outcome under every threshold; a switch of the
   criticality of an item, in either direction, keeps its changeCount. *)
C32_CounterUntouchedByCriticalPath ==
    [][/\ CriticalTick
          => /\ \A k \in DOMAIN m_registryKeys :
                   heap'[m_registryKeys[k]].changeCount
                       = heap[m_registryKeys[k]].changeCount
             /\ SameUnderAnyThreshold
       /\ \A id \in DOMAIN heap :
             heap'[id].isCritical # heap[id].isCritical
                 => heap'[id].changeCount = heap[id].changeCount]_vars

\* a tick handled a divergence of a critical item that had counted one change
\* while it was non-critical, and left the count at one
C32_Witness ==
    \E i \in DOMAIN trail :
        /\ IsDetect(i) /\ trail[i].flag
        /\ Before(i).n = 1
        /\ heap[trail[i].id].changeCount = 1

----------------------------------------------------------------------------
(* The result of a save of user settings *)

(* C33: insertOrUpdateUserSettings returns true only when the settings record
   was actually inserted or updated; when the validation, the update or the
   insert of a new record fails it returns false and the stored settings are
   unchanged. *)
C33_TrueOnlyWhenStored ==
    [][\A k \in DOMAIN trail' :
          trail'[k].type = "insertOrUpdateUserSettings"
              => /\ trail'[k].flag <=> trail'[k].why \in {"inserted", "updated"}
                 /\ ~trail'[k].flag => UserSettings' = UserSettings]_vars

(* C34: on a threshold trip the counter of a non-critical item is reset to 0
   whether or not an alert is actually sent (frequency "Never", rate limit
   reached, all deliveries failed); hence with a constant threshold T > 0
   every non-critical item has 0 <= changeCount < T after every tick. *)
C34_CounterBelowThreshold ==
    /\ \A i \in DOMAIN trail :
          trail[i].type = "thresholdReached" => heap[trail[i].id].changeCount = 0
    /\ toInt(m_nonCriticalAlertThreshold) > 0
          => \A k \in DOMAIN m_registryKeys :
                ~heap[m_registryKeys[k]].isCritical
                    => /\ heap[m_registryKeys[k]].changeCount >= 0
                       /\ heap[m_registryKeys[k]].changeCount
                              < toInt(m_nonCriticalAlertThreshold)

\* a threshold trip whose alert was dropped by the rate limit
C34_Witness ==
    /\ \E i \in DOMAIN trail : trail[i].type = "thresholdReached"
    /\ \E j \in DOMAIN trail :
          IsSendAlert(j) /\ ~trail[j].flag /\ trail[j].why = "ratelimit"

----------------------------------------------------------------------------
(* The debounce map *)

\* the Change Events of the item
RowsOf(name) == {k \in DOMAIN Changes : Changes[k].config_name = name}

(* C35: the debounce value of an item is recorded at every divergence that is
   not debounced, before any alert is armed or dispatched.  Without reload and
   without allowChange the recorded value of an item that ever diverged equals
   its cached value after every tick, and the debounce branch is taken only at
   the first divergence of an item (nothing is recorded for it yet) when the
   empty value is observed. *)
C35_RecordedEqualsCached ==
    /\ \A k \in DOMAIN m_registryKeys :
          RowsOf(heap[m_registryKeys[k]].name) # {}
              => m_lastAlertedValue[heap[m_registryKeys[k]].name]
                     = heap[m_registryKeys[k]].value
    /\ \A i \in DOMAIN trail :
          IsDetect(i)
              => IF DebouncedIn(i)
                 THEN /\ trail[i].value = NoValue
                      /\ Cardinality(RowsOf(trail[i].name)) = 1
                      /\ \A j \in DOMAIN trail : trail[j].type # "lastAlerted"
                 ELSE \E j \in DOMAIN trail :
                         /\ trail[j].type = "lastAlerted"
                         /\ trail[j].name = trail[i].name
                         /\ trail[j].value = trail[i].value
                         /\ \A m \in DOMAIN trail :
                               (IsArmed(m) \/ IsSendAlert(m)) => j < m

\* a tick replaced the value recorded at an earlier divergence and called the
\* dispatcher
C35_Witness ==
    \E i \in DOMAIN trail :
        /\ IsDetect(i) /\ ~DebouncedIn(i)
        /\ Cardinality(RowsOf(trail[i].name)) > 1
        /\ \E m \in DOMAIN trail : IsSendAlert(m)

\* the effects of the step hold nothing but the acceptance of the value: no
\* restore, no rollback event, no armed or dispatched alert, no write of the
\* configuration snapshot
SilentStep ==
    \A j \in DOMAIN trail' :
        trail'[j].type \notin {"restore", "criticalChangeDetected", "singleShot",
                               "sendAlert", "sendEmailAlert", "sendSmsAlert",
                               "insertOrUpdateConfiguration", "lastAlerted"}

(* C36: reload does not clear the debounce map.  A reload leaves every recorded
   value as it was, and a tick that observes an item named n diverging to the
   value recorded for n takes the debounce branch: the value is accepted into
   the cache with no rollback, no alert and no write of the configuration
   snapshot, even when the item is critical. *)
C36_ReloadKeepsDebounceMap ==
    [][/\ (\E j \in DOMAIN trail' : trail'[j].type \in {"reload", "reloadAborted"})
             => m_lastAlertedValue' = m_lastAlertedValue
       /\ \A i \in DOMAIN trail' :
             (/\ trail'[i].type = "detect"
              /\ trail'[i].value = m_lastAlertedValue[trail'[i].name])
                 => /\ SilentStep
                    /\ heap'[trail'[i].id].value = trail'[i].value
                    /\ registry'[trail'[i].name] = trail'[i].value]_vars

\* a tick debounced the divergence of a critical item object that a reload
\* built, to a value recorded before the reload
C36_Witness ==
    \E i \in DOMAIN trail :
        /\ IsDetect(i) /\ DebouncedIn(i)
        /\ trail[i].flag
        /\ trail[i].value # NoValue
        /\ trail[i].id > Len(ConfigFile)

----------------------------------------------------------------------------
(* allowChange without an unresolved divergence *)

\* the item object has no unresolved divergence: nothing is pending, or the
\* pending value is an older one (the cache has moved on) and the external
\* value is the cached one
NoUnresolvedDivergence(id) ==
    \/ heap[id].newValue = NoValue
    \/ /\ heap[id].newValue # heap[id].value
       /\ registry[heap[id].name] = heap[id].value

(* C37: allowChange for an item that has no unresolved divergence does not
   modify the external value, the cached value or previousValue of the item;
   allowChange for an unknown identity modifies no item. *)
C37_IdleAllowChangesNothing ==
    [][\A j \in DOMAIN trail' :
          trail'[j].type = "allowChange"
              => IF trail'[j].id = 0
                 THEN heap' = heap /\ registry' = registry
                 ELSE NoUnresolvedDivergence(trail'[j].id)
                         => /\ registry' = registry
                            /\ heap'[trail'[j].id].value = heap[trail'[j].id].value
                            /\ heap'[trail'[j].id].previousValue
                                   = heap[trail'[j].id].previousValue]_vars

----------------------------------------------------------------------------
(* The alert of a critical divergence *)

\* calls of the dispatcher made or armed by the handler
CallsMadeOrArmed ==
    Cardinality({j \in DOMAIN trail : IsSendAlert(j) \/ trail[j].type = "singleShot"})

\* a tick calls or arms the dispatcher at most once for a non-debounced critical
\* divergence, and a callback calls it at most once
AtMostOneCall ==
    /\ \A i \in DOMAIN trail :
          (IsDetect(i) /\ trail[i].flag /\ ~DebouncedIn(i)) => CallsMadeOrArmed <= 1
    /\ \A i \in DOMAIN trail :
          trail[i].type = "timeout" => CallsMadeOrArmed <= 1

\* a pending alert leaves the queue only by firing, one at a time, and the
\* callback that fires either dispatches, finds alerts disabled or is
\* suppressed by the exemption flag
FiresOnce ==
    timers' # timers
        => \/ /\ Len(timers') = Len(timers) + 1
              /\ SubSeq(timers', 1, Len(timers)) = timers
           \/ /\ timers # << >>
              /\ Len(timers') = Len(timers) - 1
              /\ Cardinality({j \in DOMAIN trail' : trail'[j].type = "timeout"}) = 1
              /\ Cardinality({j \in DOMAIN trail' :
                                 trail'[j].type \in {"sendAlert", "alertsDisabled",
                                                     "acknowledgedBeforeDelay"}}) = 1

(* C38: each non-debounced divergence of a critical item causes at most one
   call of the alert dispatcher, and every armed delayed alert eventually
   fires exactly once, either dispatching or being suppressed by the
   exemption flag. *)
C38_OneAlertPerDivergence ==
    /\ [] AtMostOneCall
    /\ [][FiresOnce]_vars
    /\ []<>(timers = << >>)

----------------------------------------------------------------------------
(* A tick after a tick *)

\* the state a tick left after it handled a divergence
AfterTick == timerActive /\ \E i \in DOMAIN trail : IsDetect(i)

\* the next tick, whatever the channels do: no event (no Change Event, no write
\* to the external resource or the store, no alert armed or sent) and no
\* variable changed
NextTickIdle ==
    \A net \in SUBSET Channels : checkForChanges(Cur, m_registryKeys, net) = Cur

(* C39: a tick is idempotent: when a tick is followed by another tick with no
   external change and no control operation in between, external writes
   succeeding, the second tick appends no Change Event, writes nothing to the
   external resource or the store, changes no item field and arms no alert. *)
C39_TickIdempotent == (AfterTick /\ writable) => NextTickIdle

\* a tick handled a divergence that was not debounced and left the cache of the
\* item on the external value
C39_Witness ==
    /\ AfterTick /\ writable
    /\ \E i \in DOMAIN trail : IsDetect(i) /\ ~DebouncedIn(i)
    /\ \E id \in DOMAIN heap : registry[heap[id].name] = heap[id].value
                                  /\ heap[id].value # heap[id].previousValue

----------------------------------------------------------------------------
(* The two monitoring classes *)

OtherPlatform(p) == IF p = "win" THEN "mac" ELSE "win"

IsExternalWrite(e) == e.type \in {"setValue", "restore"}

\* what the two classes are compared on: the fields of the items, the debounce
\* map, the external values with the writes in the order they were made, and
\* the Change Events
TickState(s) ==
    [heap |-> s.heap, m_lastAlertedValue |-> s.m_lastAlertedValue,
     registry |-> s.registry, writes |-> SelectSeq(s.trail, IsExternalWrite),
     Changes |-> s.Changes]

\* the program of the other platform before the same tick, with another
\* history of alerts: none pending, none delivered
OnOtherPlatform ==
    [Cur EXCEPT !.platform = OtherPlatform(platform), !.timers = << >>,
                !.m_alertTimestamps = << >>, !.sentTimes = << >>]

(* C40: the Windows and macOS tick algorithms are equivalent on state: for the
   same items and the same observed external values they produce the same item
   fields (cached value, previousValue, pending value, changeCount, exemption
   flag), the same debounce map, the same external writes and the same
   sequence of Change Events; they differ only in when and how often the
   alert dispatcher is called. *)
C40_SameTickOnBothPlatforms ==
    [][(\E i \in DOMAIN trail' : trail'[i].type = "detect")
          => \A net \in SUBSET Channels :
                TickState([Cur EXCEPT !.trail = trail]')
                    = TickState(checkForChanges(OnOtherPlatform, m_registryKeys, net))]_vars

\* a macOS tick handled a critical divergence and called the dispatcher, where
\* the Windows tick arms a delayed alert
C40_Witness ==
    /\ platform = "mac"
    /\ \E i \in DOMAIN trail : IsDetect(i) /\ trail[i].flag /\ ~DebouncedIn(i)
    /\ \E j \in DOMAIN trail : IsSendAlert(j)
    /\ \E j \in DOMAIN trail : trail[j].type = "restore"

====
